---- MODULE Spec2Model ----
(***************************************************************************)
(* A model of the lyric annotation and card generation pipeline of the     *)
(* song-learning application: the JSON extractor (lib/ai/services.ts),     *)
(* the batch annotator parseLyrics and the song import handler.            *)
(*                                                                         *)
(* Texts are sequences of one-character strings.  JSON values are tagged   *)
(* records: a type tag and one field named after the type.                 *)
(***************************************************************************)
EXTENDS Integers, Sequences, FiniteSets, TLC

(***************************************************************************)
(* Bounds of the model.                                                    *)
(***************************************************************************)
\* longest raw (unstructured) text handed to the extractor
MaxRawLen == 3

(***************************************************************************)
(* JSON values, as JSON.parse builds them.                                 *)
(***************************************************************************)
JNull == [type |-> "null"]
JBool(b) == [type |-> "bool", bool |-> b]
JNum(n) == [type |-> "number", num |-> n]
JStr(cs) == [type |-> "string", str |-> cs]
JArr(vs) == [type |-> "array", items |-> vs]
JObj(f) == [type |-> "object", members |-> f]

\* the JS value null: what extractJSON returns as its failure signal
null == JNull

Whitespace == {" ", "\n", "\t", "\r"}
Digits == {"0", "1", "2", "3", "4", "5", "6", "7", "8", "9"}
DigitVal(c) == CASE c = "0" -> 0 [] c = "1" -> 1 [] c = "2" -> 2 [] c = "3" -> 3
                 [] c = "4" -> 4 [] c = "5" -> 5 [] c = "6" -> 6 [] c = "7" -> 7
                 [] c = "8" -> 8 [] c = "9" -> 9

\* the result of a failed parse step (JSON.parse throws SyntaxError)
ParseFail == [ok |-> FALSE, val |-> JNull, next |-> 0]
ParseOk(v, n) == [ok |-> TRUE, val |-> v, next |-> n]

RECURSIVE SkipWs(_, _)
SkipWs(s, p) == IF p <= Len(s) /\ s[p] \in Whitespace THEN SkipWs(s, p + 1) ELSE p

\* the characters of a string literal after its opening quote, decoded;
\* acc is what was decoded so far, p the next character to read
RECURSIVE ParseStringChars(_, _, _)
ParseStringChars(s, p, acc) ==
  IF p > Len(s) THEN ParseFail
  ELSE IF s[p] = "\"" THEN ParseOk(JStr(acc), p + 1)
  ELSE IF s[p] = "\\" THEN
    IF p + 1 > Len(s) THEN ParseFail
    ELSE IF s[p + 1] \in {"\"", "\\", "/"} THEN ParseStringChars(s, p + 2, Append(acc, s[p + 1]))
    ELSE IF s[p + 1] = "n" THEN ParseStringChars(s, p + 2, Append(acc, "\n"))
    ELSE IF s[p + 1] = "t" THEN ParseStringChars(s, p + 2, Append(acc, "\t"))
    ELSE IF s[p + 1] = "r" THEN ParseStringChars(s, p + 2, Append(acc, "\r"))
    ELSE ParseFail
  ELSE IF s[p] \in {"\n", "\t", "\r"} THEN ParseFail
  ELSE ParseStringChars(s, p + 1, Append(acc, s[p]))

ParseString(s, p) ==
  IF p <= Len(s) /\ s[p] = "\"" THEN ParseStringChars(s, p + 1, << >>) ELSE ParseFail

RECURSIVE ParseDigits(_, _, _)
ParseDigits(s, p, acc) ==
  IF p <= Len(s) /\ s[p] \in Digits
  THEN ParseDigits(s, p + 1, 10 * acc + DigitVal(s[p]))
  ELSE ParseOk(JNum(acc), p)

\* an integer literal: 0, or a non-zero digit followed by digits, with an
\* optional minus sign (fractions and exponents are outside the alphabet)
ParseNumber(s, p) ==
  LET neg == p <= Len(s) /\ s[p] = "-"
      q == IF neg THEN p + 1 ELSE p
      r == IF q > Len(s) \/ s[q] \notin Digits THEN ParseFail
           ELSE IF s[q] = "0" THEN ParseOk(JNum(0), q + 1)
           ELSE ParseDigits(s, q, 0)
  IN IF r.ok /\ neg THEN ParseOk(JNum(0 - r.val.num), r.next) ELSE r

IsAt(s, p, word) == p + Len(word) - 1 <= Len(s) /\ SubSeq(s, p, p + Len(word) - 1) = word

RECURSIVE ParseValue(_, _)
RECURSIVE ParseElements(_, _, _)
RECURSIVE ParseMembers(_, _, _)

\* the elements of an array after "[" or ","; p is at the element
ParseElements(s, p, acc) ==
  LET v == ParseValue(s, SkipWs(s, p))
      q == SkipWs(s, v.next)
  IN IF ~v.ok \/ q > Len(s) THEN ParseFail
     ELSE IF s[q] = "," THEN ParseElements(s, q + 1, Append(acc, v.val))
     ELSE IF s[q] = "]" THEN ParseOk(JArr(Append(acc, v.val)), q + 1)
     ELSE ParseFail

\* the members of an object after "{" or ","; a later duplicate key wins
ParseMembers(s, p, acc) ==
  LET k == ParseString(s, SkipWs(s, p))
      c == SkipWs(s, k.next)
      v == ParseValue(s, SkipWs(s, c + 1))
      q == SkipWs(s, v.next)
      obj == [x \in (DOMAIN acc) \cup {k.val.str} |-> IF x = k.val.str THEN v.val ELSE acc[x]]
  IN IF ~k.ok \/ c > Len(s) \/ s[c] # ":" THEN ParseFail
     ELSE IF ~v.ok \/ q > Len(s) THEN ParseFail
     ELSE IF s[q] = "," THEN ParseMembers(s, q + 1, obj)
     ELSE IF s[q] = "}" THEN ParseOk(JObj(obj), q + 1)
     ELSE ParseFail

ParseValue(s, p) ==
  IF p > Len(s) THEN ParseFail
  ELSE IF s[p] = "{" THEN
    LET q == SkipWs(s, p + 1)
    IN IF q <= Len(s) /\ s[q] = "}" THEN ParseOk(JObj(<< >>), q + 1)
       ELSE ParseMembers(s, p + 1, << >>)
  ELSE IF s[p] = "[" THEN
    LET q == SkipWs(s, p + 1)
    IN IF q <= Len(s) /\ s[q] = "]" THEN ParseOk(JArr(<< >>), q + 1)
       ELSE ParseElements(s, p + 1, << >>)
  ELSE IF s[p] = "\"" THEN ParseString(s, p)
  ELSE IF s[p] = "-" \/ s[p] \in Digits THEN ParseNumber(s, p)
  ELSE IF IsAt(s, p, <<"n", "u", "l", "l">>) THEN ParseOk(JNull, p + 4)
  ELSE IF IsAt(s, p, <<"t", "r", "u", "e">>) THEN ParseOk(JBool(TRUE), p + 4)
  ELSE IF IsAt(s, p, <<"f", "a", "l", "s", "e">>) THEN ParseOk(JBool(FALSE), p + 5)
  ELSE ParseFail

\* the grammar of JSON.parse: one value, whitespace around it, nothing else;
\* ok = FALSE stands for the SyntaxError it throws
ParseText(s) ==
  LET v == ParseValue(s, SkipWs(s, 1))
  IN IF v.ok /\ SkipWs(s, v.next) > Len(s) THEN ParseOk(v.val, v.next) ELSE ParseFail

(***************************************************************************)
(* JSON.stringify, used to build the well-formed objects that the texts    *)
(* under test embed.                                                       *)
(***************************************************************************)
RECURSIVE EscapeChars(_)
EscapeChars(cs) ==
  IF cs = << >> THEN << >>
  ELSE (IF Head(cs) \in {"\"", "\\"} THEN <<"\\", Head(cs)>> ELSE <<Head(cs)>>)
       \o EscapeChars(Tail(cs))

Quote(cs) == <<"\"">> \o EscapeChars(cs) \o <<"\"">>

\* the sample values hold one-digit numbers only
DigitChar(n) == CHOOSE c \in Digits : DigitVal(c) = n

RECURSIVE Stringify(_)
RECURSIVE StringifyElements(_)
RECURSIVE StringifyMembers(_)
StringifyElements(vs) ==
  IF Len(vs) = 1 THEN Stringify(vs[1])
  ELSE Stringify(vs[1]) \o <<",">> \o StringifyElements(Tail(vs))

StringifyMembers(f) ==
  LET k == CHOOSE x \in DOMAIN f : TRUE
      rest == [x \in (DOMAIN f) \ {k} |-> f[x]]
      one == Quote(k) \o <<":">> \o Stringify(f[k])
  IN IF DOMAIN rest = {} THEN one ELSE one \o <<",">> \o StringifyMembers(rest)

Stringify(v) ==
  CASE v.type = "number" -> <<DigitChar(v.num)>>
    [] v.type = "string" -> Quote(v.str)
    [] v.type = "array" ->
         IF v.items = << >> THEN <<"[", "]">>
         ELSE <<"[">> \o StringifyElements(v.items) \o <<"]">>
    [] v.type = "object" ->
         IF DOMAIN v.members = {} THEN <<"{", "}">>
         ELSE <<"{">> \o StringifyMembers(v.members) \o <<"}">>

(***************************************************************************)
(* The texts handed to the extractor.                                      *)
(***************************************************************************)
\* string contents that stress the scanner: quotes, backslashes, braces
StrSamples == {<<"a">>, <<"\"">>, <<"}">>, <<"{">>, <<"\\">>, <<"h", "\"", "i", "\"">>,
               <<"\"", "}">>}
KeySamples == {<<"a">>, <<"b", "\"">>}
Scalars == {JNum(1)} \cup {JStr(x) : x \in StrSamples}
FlatObjects == {JObj(<< >>)} \cup {JObj(k :> v) : k \in KeySamples, v \in Scalars}
NestedObjects ==
  {JObj(<<"a">> :> o) : o \in FlatObjects}
  \cup {JObj(<<"a">> :> JArr(<<v, JObj(<<"c">> :> v)>>)) : v \in Scalars}
  \cup {JObj(<<"a">> :> JNum(1) @@ <<"b">> :> JObj(<<"c">> :> JNum(2)))}
SampleObjects == FlatObjects \cup NestedObjects

\* prose around the object
Prefixes == {<< >>, <<"a", " ">>, <<"\"", " ">>, <<"}", " ">>, <<"[">>,
             <<"{", "a", "}", " ">>, <<"a", "{", " ">>}
Suffixes == {<< >>, <<" ", "a">>, <<"}">>, <<"\"">>, <<"]">>, <<" ", "{">>}

RawAlphabet == {"{", "}", "[", "]", "\"", "\\", ":", "1", "a"}
RECURSIVE RawTexts(_)
RawTexts(n) ==
  IF n = 0 THEN {<< >>}
  ELSE LET shorter == RawTexts(n - 1)
       IN shorter \cup {Append(t, c) : t \in {u \in shorter : Len(u) = n - 1}, c \in RawAlphabet}

(***************************************************************************)
(* extractJSON (lib/ai/services.ts), one loop iteration per step.          *)
(* Positions are 1-based here; the source's are 0-based.                   *)
(***************************************************************************)
VARIABLES
  text,        \* the argument of extractJSON
  embedded,    \* how text was built: [has, prefix, value, suffix]
  jpc,         \* "start", "scan", "done", or "threw" for an exception leaving
  startIndex,  \* position of the first "{" (0: none looked for yet)
  scanIndex,   \* the loop variable i
  braceCount,
  inString,
  escapeNext,
  result       \* the value returned, null for failure

jsonVars == <<text, embedded, jpc, startIndex, scanIndex, braceCount, inString,
              escapeNext, result>>

(***************************************************************************)
(* The state of one song import request (app/api/songs/import/route.ts)    *)
(* and of the annotation and card generation it runs.                      *)
(***************************************************************************)
VARIABLES
  mockMode,    \* isMockMode()
  session,     \* TRUE when the request carries an authenticated session
  lyrics,      \* the request's lyric lines, each a text
  options,     \* [parseWithAI, generateCards, cardsPerLine]
  pc,          \* where the handler is: "start", "parse", "cards", "done"
  response,    \* the HTTP status of the response, 0 while there is none
  dbSongs,     \* number of song rows
  dbLines,     \* the line rows, in insertion order
  dbCards,     \* the card rows, in insertion order
  parsedLines, \* the handler's parsedLines: the lines as it last read them
  batchStart,  \* the loop variable i of parseLyrics (0-based)
  results,     \* the results array of parseLyrics
  cardIndex,   \* the line the card generation loop is at (1-based)
  inflight,    \* LLM invocations started and not yet finished
  invoked,     \* history: every LLM invocation started, in order
  batchLog     \* history: every finished chunk with what the LLM answered

importVars == <<mockMode, session, lyrics, options, pc, response, dbSongs, dbLines,
                dbCards, parsedLines, batchStart, results, cardIndex, inflight, invoked, batchLog>>

(***************************************************************************)
(* The state of one card generation request (POST /api/cards/generate, in  *)
(* app/api/cards/[id]/route.ts), and the log of the card generation calls  *)
(* of either kind of request.                                              *)
(***************************************************************************)
VARIABLES
  gpc,         \* where the handler is: "idle", "start", "await", "done"
  gbody,       \* the request body: [valid, count]
  glineFound,  \* TRUE when getLineById finds the line
  gresponse,   \* the HTTP status of the response, 0 while there is none
  gdata,       \* the response's data: the saved cards, as Promise.all gives them
  gcandidates, \* history: the candidates generateCardsFromLine returned
  cardLog      \* history: every finished generateCardsFromLine call:
               \* [at, kind, failed, cards], cards being those the handler took

genVars == <<gpc, gbody, glineFound, gresponse, gdata, gcandidates>>

(***************************************************************************)
(* The learning progress of one (user, card) pair: the card_progress table *)
(* and the requests to /api/cards/[id]/progress being served for the pair. *)
(***************************************************************************)
VARIABLES
  cardProgress,        \* the card_progress rows of the pair: [status, reviewCount]
  req,         \* the requests: req[r] = [input, pc, response]
  initialRows, \* history: the rows at the start
  served,      \* history: the valid mark requests that finished: [target, response]
  overlapped   \* history: TRUE when a request arrived while another was being served

progVars == <<cardProgress, req, initialRows, served, overlapped>>

(***************************************************************************)
(* The cards page (app/cards/page.tsx) with its StudyMode component, and   *)
(* the progress the server holds for the cards of the page.                *)
(***************************************************************************)
VARIABLES
  allCards,        \* the cards of the page in group order: [id, status, reviewCount]
  stats,           \* the page's counts by status
  studyLimit,      \* the session cap, 0 for all cards
  studyMode,       \* TRUE while StudyMode is mounted
  pageError,       \* TRUE once the page shows its error screen
  currentIndex,    \* StudyMode: the position in the session
  masteredIds,     \* StudyMode: ids marked mastered
  learningIds,     \* StudyMode: ids marked learning
  showComplete,    \* StudyMode: the completion screen is shown
  reported,        \* the summary handed to onComplete when the session completed
  pending,         \* the progress updates in flight
  refreshes,       \* the fetchCards calls in flight
  serverCards,     \* the server's progress of each card: [status, reviewCount]
  marksMade        \* the marks made so far

studyVars == <<allCards, stats, studyLimit, studyMode, pageError, currentIndex,
               masteredIds, learningIds, showComplete, reported, pending,
               refreshes, serverCards, marksMade>>

(***************************************************************************)
(* The library: the songs, lines and cards tables (db/schema) under the    *)
(* requests that delete a song and change or delete a card.                *)
(***************************************************************************)
VARIABLES
  songsTable,   \* the ids of the songs rows
  songCreator,  \* creator_id of each song, "" for null
  linesTable,   \* the ids of the lines rows
  cardsTable,   \* the ids of the cards rows
  cardWord,     \* the word of each card
  deletedSongs, \* history: the songs deleted by DELETE /api/songs/[id]
  requester     \* history: the user of the request served last, "" without a session

libraryVars == <<songsTable, songCreator, linesTable, cardsTable, cardWord,
                 deletedSongs, requester>>

(***************************************************************************)
(* The conversations: the conversations table with the messages' token     *)
(* counts, the createMessage calls in progress and the listing served last.*)
(***************************************************************************)
VARIABLES
  convOwner,    \* user_id of each conversation
  convMatches,  \* whether the title or summary of each conversation matches the search
  totalTokens,  \* metadata.totalTokens of each conversation
  messageSum,   \* the sum of the tokens of the messages rows of each conversation
  calls,        \* the createMessage calls: [conv, tokens, pc, currentTokens]
  listing       \* the listing served last: [route, user, data]

convVars == <<convOwner, convMatches, totalTokens, messageSum, calls, listing>>

(***************************************************************************)
(* The audio player: the player store's current song and the audio element *)
(* of useAudioPlayer with its loads in progress.                           *)
(***************************************************************************)
VARIABLES
  currentSong,    \* the store's current song
  songSource,     \* where each song's audio is: "local", "remote", "both" or "none"
  audioSrc,       \* the song whose url is the audio element's src, 0 for no src
  currentBlobUrl, \* currentBlobUrlRef: the song whose blob url it holds, 0 for null
  loads,          \* the loadAudio calls waiting for getAudioUrl: [n, song]
  switches,       \* the playSong calls so far
  currentLoaded   \* history: the load started for the current song has set the src

audioVars == <<currentSong, songSource, audioSrc, currentBlobUrl, loads, switches,
               currentLoaded>>

\* the variables of the parts below the import, generation and progress requests
moreVars == <<studyVars, libraryVars, convVars, audioVars>>

RECURSIVE indexOf(_, _, _)
\* t.indexOf(c) from position p on; 0 when c does not occur
indexOf(t, c, p) ==
  IF p > Len(t) THEN 0 ELSE IF t[p] = c THEN p ELSE indexOf(t, c, p + 1)

\* the texts extractJSON is called with
ExtractorTexts ==
  {pre \o Stringify(o) \o suf : pre \in Prefixes, suf \in Suffixes, o \in SampleObjects}
    \cup RawTexts(MaxRawLen)

\* what extractJSON can hand to JSON.parse: the text, or its slice from the
\* first "{" to some "}"
ParseArguments ==
  ExtractorTexts \cup
    UNION {{SubSeq(t, indexOf(t, "{", 1), j) :
              j \in {i \in indexOf(t, "{", 1)..Len(t) : t[i] = "}"}} :
           t \in {u \in ExtractorTexts : indexOf(u, "{", 1) # 0}}

\* JSON.parse on those arguments, tabulated once
ParseTable == [s \in ParseArguments |-> ParseText(s)]

\* JSON.parse
JSONparse(s) == IF s \in ParseArguments THEN ParseTable[s] ELSE ParseText(s)

\* ScanChar without the depth counter: the first "}" outside a string closes
ScanChar_FirstClosingBrace(st, c) ==
  IF st.escapeNext THEN [st EXCEPT !.escapeNext = FALSE]
  ELSE IF c = "\\" /\ st.inString THEN [st EXCEPT !.escapeNext = TRUE]
  ELSE IF c = "\"" THEN [st EXCEPT !.inString = ~st.inString]
  ELSE IF st.inString THEN st
  ELSE IF c = "}" THEN [st EXCEPT !.braceCount = 0, !.closed = TRUE]
  ELSE st

\* ScanChar without the escape handling: every quote toggles the string state
ScanChar_NoEscape(st, c) ==
  IF c = "\"" THEN [st EXCEPT !.inString = ~st.inString]
  ELSE IF st.inString THEN st
  ELSE IF c = "{" THEN [st EXCEPT !.braceCount = st.braceCount + 1]
  ELSE IF c = "}" THEN [st EXCEPT !.braceCount = st.braceCount - 1,
                                  !.closed = (st.braceCount - 1 = 0)]
  ELSE st

\* one iteration of the scanning loop on character c, from scanner state st
ScanChar(st, c) ==
  IF st.escapeNext THEN [st EXCEPT !.escapeNext = FALSE]
  ELSE IF c = "\\" /\ st.inString THEN [st EXCEPT !.escapeNext = TRUE]
  ELSE IF c = "\"" THEN [st EXCEPT !.inString = ~st.inString]
  ELSE IF st.inString THEN st
  ELSE IF c = "{" THEN [st EXCEPT !.braceCount = st.braceCount + 1]
  ELSE IF c = "}" THEN [st EXCEPT !.braceCount = st.braceCount - 1,
                                  !.closed = (st.braceCount - 1 = 0)]
  ELSE st

ScanState == [braceCount |-> braceCount, inString |-> inString,
              escapeNext |-> escapeNext, closed |-> FALSE]

InitJSON ==
  /\ \/ \E pre \in Prefixes, suf \in Suffixes, o \in SampleObjects :
          /\ text = pre \o Stringify(o) \o suf
          /\ embedded = [has |-> TRUE, prefix |-> pre, value |-> o, suffix |-> suf]
     \/ \E raw \in RawTexts(MaxRawLen) :
          /\ text = raw
          /\ embedded = [has |-> FALSE, prefix |-> raw, value |-> JNull, suffix |-> << >>]
  /\ jpc = "start"
  /\ startIndex = 0
  /\ scanIndex = 0
  /\ braceCount = 0
  /\ inString = FALSE
  /\ escapeNext = FALSE
  /\ result = null

\* the whole text is JSON: return its value, whatever its type
DirectParse ==
  /\ jpc = "start"
  /\ JSONparse(text).ok
  /\ result' = JSONparse(text).val
  /\ jpc' = "done"
  /\ UNCHANGED <<moreVars, progVars, importVars, genVars, cardLog>>
  /\ UNCHANGED <<text, embedded, startIndex, scanIndex, braceCount, inString, escapeNext>>

\* no "{" in the text: failure
NoObjectFound ==
  /\ jpc = "start"
  /\ ~JSONparse(text).ok
  /\ indexOf(text, "{", 1) = 0
  /\ result' = null
  /\ jpc' = "done"
  /\ UNCHANGED <<moreVars, progVars, importVars, genVars, cardLog>>
  /\ UNCHANGED <<text, embedded, startIndex, scanIndex, braceCount, inString, escapeNext>>

BeginScan ==
  /\ jpc = "start"
  /\ ~JSONparse(text).ok
  /\ indexOf(text, "{", 1) # 0
  /\ startIndex' = indexOf(text, "{", 1)
  /\ scanIndex' = indexOf(text, "{", 1)
  /\ braceCount' = 0
  /\ inString' = FALSE
  /\ escapeNext' = FALSE
  /\ jpc' = "scan"
  /\ UNCHANGED <<moreVars, progVars, importVars, genVars, cardLog>>
  /\ UNCHANGED <<text, embedded, result>>

\* one iteration that does not close the object
ScanStep ==
  /\ jpc = "scan"
  /\ scanIndex <= Len(text)
  /\ ~ScanChar(ScanState, text[scanIndex]).closed
  /\ braceCount' = ScanChar(ScanState, text[scanIndex]).braceCount
  /\ inString' = ScanChar(ScanState, text[scanIndex]).inString
  /\ escapeNext' = ScanChar(ScanState, text[scanIndex]).escapeNext
  /\ scanIndex' = scanIndex + 1
  /\ UNCHANGED <<moreVars, progVars, importVars, genVars, cardLog>>
  /\ UNCHANGED <<text, embedded, jpc, startIndex, result>>

\* the parse of the extracted slice with no try around it: a SyntaxError
\* leaves extractJSON
ParseExtracted_Uncaught(jsonStr) ==
  IF JSONparse(jsonStr).ok THEN [threw |-> FALSE, val |-> JSONparse(jsonStr).val]
  ELSE [threw |-> TRUE, val |-> null]

\* the parse of the extracted slice inside its try: a SyntaxError is caught
\* and null is returned
ParseExtracted(jsonStr) ==
  IF JSONparse(jsonStr).ok THEN [threw |-> FALSE, val |-> JSONparse(jsonStr).val]
  ELSE [threw |-> FALSE, val |-> null]

\* the iteration that brings the depth back to zero: parse the slice
ScanClose ==
  /\ jpc = "scan"
  /\ scanIndex <= Len(text)
  /\ ScanChar(ScanState, text[scanIndex]).closed
  /\ braceCount' = 0
  /\ LET r == ParseExtracted(SubSeq(text, startIndex, scanIndex))
     IN /\ result' = r.val
        /\ jpc' = IF r.threw THEN "threw" ELSE "done"
  /\ UNCHANGED <<moreVars, progVars, importVars, genVars, cardLog>>
  /\ UNCHANGED <<text, embedded, startIndex, scanIndex, inString, escapeNext>>

\* the loop ran off the end of the text: failure
ScanIncomplete ==
  /\ jpc = "scan"
  /\ scanIndex > Len(text)
  /\ result' = null
  /\ jpc' = "done"
  /\ UNCHANGED <<moreVars, progVars, importVars, genVars, cardLog>>
  /\ UNCHANGED <<text, embedded, startIndex, scanIndex, braceCount, inString, escapeNext>>

NextJSON ==
  \/ DirectParse
  \/ NoObjectFound
  \/ BeginScan
  \/ ScanStep
  \/ ScanClose
  \/ ScanIncomplete

(***************************************************************************)
(* The batch annotator parseLyrics (lib/ai/services.ts) and its inputs.    *)
(***************************************************************************)
\* AI_CONFIG.lyricsParser.batchSize
batchSize == 8
\* most lyric lines in a request
MaxLines == 10
\* most cards a request that asks for cards can come to save
MaxSavedCards == 3
\* most candidate cards in one LLM answer
MaxCandidates == 3
\* options.cardsPerLine is validated into 1..3
MaxCardsPerLine == 3

Min(a, b) == IF a < b THEN a ELSE b

Letters == <<"a", "b", "c", "d", "e", "f", "g", "h", "i", "j", "k", "l", "m", "n", "o", "p", "q", "r", "s", "t", "u", "v", "w", "x", "y", "z">>

\* the lyric line at position k: one letter, so that all lines differ
PlainLine(k) == <<Letters[k]>>
\* a line of white space only, and a line holding a line break
BlankLine == <<" ">>
TwoRowLine(k) == <<Letters[k], "\n", Letters[k]>>

\* the JS string '' and the string '[]'
EmptyText == << >>
EmptyArrayText == <<"[", "]">>
\* a column that holds SQL NULL
NullText == <<"NULL">>

\* what a faithful LLM answers for the line with text t: its translation, one
\* furigana span over the whole line, its token list
Translation(t) == <<"Z">> \o t
FuriganaText(t) ==
  <<"[", "{", "\"", "w", "o", "r", "d", "\"", ":", "\"">>
  \o <<t[1]>> \o
  <<"\"", ",", "\"", "r", "e", "a", "d", "i", "n", "g", "\"", ":", "\"">>
  \o <<t[1]>> \o
  <<"\"", ",", "\"", "s", "t", "a", "r", "t", "\"", ":", "0", ",", "\"",
    "e", "n", "d", "\"", ":">>
  \o <<DigitChar(Len(t))>> \o <<"}", "]">>
TokensText(t) == <<"[", "\"", t[1], "\"", "]">>

Entry(t, n) == [lineNumber |-> n, contentJa |-> t, contentZh |-> Translation(t),
                furigana |-> FuriganaText(t), tokens |-> TokensText(t)]

FaithfulLines(batch) == [j \in 1..Len(batch) |-> Entry(batch[j], j)]
\* the furigana of an answer that counts one character too many for the line
OverlongFurigana(t) ==
  <<"[", "{", "\"", "w", "o", "r", "d", "\"", ":", "\"">>
  \o <<t[1]>> \o
  <<"\"", ",", "\"", "r", "e", "a", "d", "i", "n", "g", "\"", ":", "\"">>
  \o <<t[1]>> \o
  <<"\"", ",", "\"", "s", "t", "a", "r", "t", "\"", ":", "0", ",", "\"",
    "e", "n", "d", "\"", ":">>
  \o <<DigitChar(Len(t) + 1)>> \o <<"}", "]">>
\* one entry per line, the first with such a furigana
MiscountedLines(batch) ==
  [FaithfulLines(batch) EXCEPT ![1].furigana = OverlongFurigana(batch[1])]
DropLine(es, d) == [j \in 1..(Len(es) - 1) |-> IF j < d THEN es[j] ELSE es[j + 1]]
InventedLine == Entry(<<"?">>, 0)

Answer(kind, lines) == [kind |-> kind, lines |-> lines]

\* what one LLM invocation for a batch can come to:
\*   "throw"    the API call rejects
\*   "nojson"   extractJSON returns null for the text
\*   "nolines"  the extracted value has no lines field
\*   "badlines" its lines field is not an array
\*   "lines"    its lines field is an array: one entry per line, or one entry
\*              missing, or one entry too many, or one entry per line with a
\*              span that ends after the line
BatchAnswers(batch) ==
  {Answer(k, << >>) : k \in {"throw", "nojson", "nolines", "badlines"}}
  \cup {Answer("lines", FaithfulLines(batch))}
  \cup {Answer("lines", DropLine(FaithfulLines(batch), d)) : d \in 1..Len(batch)}
  \cup {Answer("lines", Append(FaithfulLines(batch), InventedLine))}
  \cup {Answer("lines", MiscountedLines(batch))}

\* how a call ends: it throws, or returns an array, or returns something that
\* is not an array
Threw == [threw |-> TRUE, isArray |-> FALSE, value |-> << >>]
Returned(v) == [threw |-> FALSE, isArray |-> TRUE, value |-> v]
ReturnedNonArray == [threw |-> FALSE, isArray |-> FALSE, value |-> << >>]

\* parseLyricsBatch: the entries of the answer, renumbered from startIdx
parseLyricsBatch(answer, batch, startIdx) ==
  IF answer.kind \in {"throw", "nojson", "badlines"} THEN Threw
  ELSE LET lines == IF answer.kind = "nolines" THEN << >> ELSE answer.lines
       IN Returned([j \in 1..Len(lines) |-> [lines[j] EXCEPT !.lineNumber = startIdx + j]])

\* Placeholder that forgets the line's text
Placeholder_LosesText(t, n) ==
  [lineNumber |-> n, contentJa |-> EmptyText, contentZh |-> EmptyText,
   furigana |-> EmptyArrayText, tokens |-> EmptyArrayText]

\* the empty result pushed for a line of a failed batch
Placeholder(t, n) == [lineNumber |-> n, contentJa |-> t, contentZh |-> EmptyText,
                      furigana |-> EmptyArrayText, tokens |-> EmptyArrayText]

BatchOf(lyr, i) == SubSeq(lyr, i + 1, Min(i + batchSize, Len(lyr)))

\* BatchStep that gives up at the first failed batch: it pushes the batch's
\* placeholders and leaves the loop
BatchStep_AbortOnError(st, answer) ==
  LET batch == BatchOf(lyrics, st.i)
      r == parseLyricsBatch(answer, batch, st.i)
  IN IF r.threw
     THEN [i |-> Len(lyrics),
           results |-> st.results \o [j \in 1..Len(batch) |-> Placeholder(batch[j], st.i + j)]]
     ELSE [i |-> st.i + batchSize, results |-> st.results \o r.value]

\* BatchStep that tries a failed batch again
BatchStep_RetryOnError(st, answer) ==
  LET batch == BatchOf(lyrics, st.i)
      r == parseLyricsBatch(answer, batch, st.i)
  IN IF r.threw THEN st
     ELSE [i |-> st.i + batchSize, results |-> st.results \o r.value]

\* one iteration of the loop of parseLyrics, from loop state st = [i, results]
BatchStep(st, answer) ==
  LET batch == BatchOf(lyrics, st.i)
      r == parseLyricsBatch(answer, batch, st.i)
  IN [i |-> st.i + batchSize,
      results |-> st.results \o
                  (IF r.threw
                   THEN [j \in 1..Len(batch) |-> Placeholder(batch[j], st.i + j)]
                   ELSE r.value)]

\* lyrics.join('\n')
RECURSIVE Join(_)
Join(lyr) ==
  IF lyr = << >> THEN << >>
  ELSE IF Len(lyr) = 1 THEN lyr[1]
  ELSE lyr[1] \o <<"\n">> \o Join(Tail(lyr))

\* rawContent.split('\n'): cur is the row being read
RECURSIVE Split(_, _)
Split(t, cur) ==
  IF t = << >> THEN <<cur>>
  ELSE IF Head(t) = "\n" THEN <<cur>> \o Split(Tail(t), << >>)
  ELSE Split(Tail(t), Append(cur, Head(t)))

\* l.trim() is not empty
TrimsToText(l) == \E j \in 1..Len(l) : l[j] \notin Whitespace

RECURSIVE Filter(_)
Filter(rows) ==
  IF rows = << >> THEN << >>
  ELSE (IF TrimsToText(Head(rows)) THEN <<Head(rows)>> ELSE << >>) \o Filter(Tail(rows))

\* the translation the mock writes for its row n
MockTranslation(n) == <<"(", Letters[n], ")">>

\* parseMockLyrics and the mapping parseLyrics applies to it
parseMockLyrics(rawContent) ==
  LET rows == Filter(Split(rawContent, << >>))
  IN [n \in 1..Len(rows) |-> [contentJa |-> rows[n], contentZh |-> MockTranslation(n)]]

MockResults(lyr) ==
  LET mockLines == parseMockLyrics(Join(lyr))
  IN [n \in 1..Len(mockLines) |->
        [lineNumber |-> n, contentJa |-> mockLines[n].contentJa,
         contentZh |-> mockLines[n].contentZh,
         furigana |-> EmptyArrayText, tokens |-> EmptyArrayText]]


(***************************************************************************)
(* Card generation (generateCardsFromLine) and its inputs.                 *)
(***************************************************************************)
\* part-of-speech tags an LLM answer may carry; "" stands for a missing tag
TagSamples == <<"verb", "", "particle", "Noun", "preposition", "pronoun", "xyz">>

\* m candidate cards, the first tagged TagSamples[o], the next ones in turn
Candidates(m, o) ==
  [j \in 1..m |-> [word |-> <<Letters[j]>>,
                   partOfSpeech |-> TagSamples[((o + j - 2) % Len(TagSamples)) + 1]]]

CardAnswer(kind, cards) == [kind |-> kind, cards |-> cards]

\* what one LLM invocation for a line can come to:
\*   "badkey"    the API call rejects the credentials
\*   "throw"     the API call rejects for another reason
\*   "nojson"    extractJSON returns null for the text
\*   "nonobject" extractJSON returns a value that is not an object
\*   "nocards"   the extracted value has no cards field
\*   "badcards"  its cards field is not an array
\*   "cards"     its cards field is an array of candidates
CardAnswersUpTo(n) ==
  {CardAnswer(k, << >>) :
     k \in {"badkey", "throw", "nojson", "nonobject", "nocards", "badcards", "cards"}}
  \cup {CardAnswer("cards", Candidates(m, o)) : m \in 1..n, o \in 1..Len(TagSamples)}

CardAnswers == CardAnswersUpTo(MaxCandidates)

\* error messages, as the sequences of their parts
AuthenticationMessage == <<"401 Incorrect ", "API key", " provided">>
ConnectionMessage == <<"Connection error.">>
UnparsedMessage == <<"cannot parse the AI response">>
GenerationFailedMessage == <<"card generation failed, try again later">>
InvalidEnumMessage == <<"invalid input value for enum part_of_speech">>
NotAFunctionMessage == <<"cardsToCreate.map is not a function">>

\* message.includes(part)
includes(message, part) == \E i \in 1..Len(message) : message[i] = part

ThrewError(message) ==
  [threw |-> TRUE, isArray |-> FALSE, value |-> << >>, message |-> message]

\* the error raised inside the try of generateCardsFromLine, if any
RaisedInGenerate(answer) ==
  CASE answer.kind = "badkey" -> AuthenticationMessage
    [] answer.kind = "throw" -> ConnectionMessage
    [] answer.kind = "nojson" -> UnparsedMessage
    [] OTHER -> << >>

\* generateCardsFromLine that answers an unparsed text with no cards
generateCardsFromLine_EmptyWhenUnparsed(answer) ==
  IF answer.kind = "nojson" THEN Returned(<< >>)
  ELSE IF RaisedInGenerate(answer) # << >> THEN ThrewError(GenerationFailedMessage)
  ELSE IF answer.kind = "badcards" THEN ReturnedNonArray
  ELSE Returned(answer.cards)

\* generateCardsFromLine outside mock mode: whatever is raised inside is
\* caught and replaced by one error with a fixed message
generateCardsFromLine(answer) ==
  IF RaisedInGenerate(answer) # << >> THEN ThrewError(GenerationFailedMessage)
  ELSE IF answer.kind = "badcards" THEN ReturnedNonArray
  ELSE Returned(answer.cards)

MOCK_WORDS == <<
  [word |-> <<"yume">>, partOfSpeech |-> "noun"],
  [word |-> <<"nagisa">>, partOfSpeech |-> "noun"],
  [word |-> <<"hanabi">>, partOfSpeech |-> "noun"],
  [word |-> <<"yoru">>, partOfSpeech |-> "noun"],
  [word |-> <<"kimi">>, partOfSpeech |-> "noun"],
  [word |-> <<"ai">>, partOfSpeech |-> "noun"],
  [word |-> <<"kokoro">>, partOfSpeech |-> "noun"],
  [word |-> <<"sora">>, partOfSpeech |-> "noun"],
  [word |-> <<"miru">>, partOfSpeech |-> "verb"],
  [word |-> <<"hashiru">>, partOfSpeech |-> "verb"] >>

validPartOfSpeech == {"noun", "verb", "adjective", "adverb", "particle", "other"}

\* pos.toLowerCase() on the sample tags
toLowerCase(pos) == CASE pos = "Noun" -> "noun" [] OTHER -> pos

normalizePartOfSpeech(pos) ==
  IF pos = "" THEN "other"
  ELSE LET lowered == toLowerCase(pos)
       IN IF lowered \in validPartOfSpeech THEN lowered
          ELSE IF lowered \in {"preposition", "prep"} THEN "particle"
          ELSE "other"

(***************************************************************************)
(* POST /api/songs/import                                                  *)
(***************************************************************************)
LyricsInputs ==
  {<< >>}
  \cup {[k \in 1..n |-> PlainLine(k)] : n \in 1..MaxLines}
  \cup UNION {{[k \in 1..n |-> IF k = sp THEN BlankLine ELSE PlainLine(k)],
               [k \in 1..n |-> IF k = sp THEN TwoRowLine(k) ELSE PlainLine(k)]} :
              n \in 1..MaxLines, sp \in 1..MaxLines}

OptionInputs(n) ==
  {[parseWithAI |-> p, generateCards |-> FALSE, cardsPerLine |-> 1] : p \in BOOLEAN}
  \cup {[parseWithAI |-> p, generateCards |-> TRUE, cardsPerLine |-> c] :
          p \in BOOLEAN, c \in {d \in 1..MaxCardsPerLine : n * d <= MaxSavedCards}}

\* importSongSchema: at least one line, no empty line
ValidBody == Len(lyrics) >= 1 /\ \A k \in 1..Len(lyrics) : Len(lyrics[k]) >= 1

InitImport ==
  /\ mockMode \in BOOLEAN
  /\ session \in BOOLEAN
  /\ lyrics \in LyricsInputs
  /\ options \in OptionInputs(Len(lyrics))
  /\ options.generateCards => lyrics = [k \in 1..Len(lyrics) |-> PlainLine(k)]
  /\ pc = "start"
  /\ response = 0
  /\ dbSongs = 0
  /\ dbLines = << >>
  /\ dbCards = << >>
  /\ parsedLines = << >>
  /\ batchStart = 0
  /\ results = << >>
  /\ cardIndex = 1
  /\ inflight = 0
  /\ invoked = << >>
  /\ batchLog = << >>
  /\ cardLog = << >>

\* no session: 401
ImportUnauthorized ==
  /\ pc = "start"
  /\ ~session
  /\ response' = 401
  /\ pc' = "done"
  /\ UNCHANGED <<parsedLines, mockMode, session, lyrics, options, dbSongs, dbLines, dbCards,
                 batchStart, results, cardIndex, inflight, invoked, batchLog>>
  /\ UNCHANGED <<moreVars, progVars, jsonVars, genVars, cardLog>>

\* the body fails validation: 400
ImportInvalid ==
  /\ pc = "start"
  /\ session
  /\ ~ValidBody
  /\ response' = 400
  /\ pc' = "done"
  /\ UNCHANGED <<parsedLines, mockMode, session, lyrics, options, dbSongs, dbLines, dbCards,
                 batchStart, results, cardIndex, inflight, invoked, batchLog>>
  /\ UNCHANGED <<moreVars, progVars, jsonVars, genVars, cardLog>>

\* createSong, createLines
ImportCreate ==
  /\ pc = "start"
  /\ session
  /\ ValidBody
  /\ dbSongs' = dbSongs + 1
  /\ dbLines' = [k \in 1..Len(lyrics) |->
                   [lineNumber |-> k, contentJa |-> lyrics[k],
                    contentZh |-> NullText, furigana |-> JNull]]
  /\ parsedLines' = dbLines'
  /\ pc' = IF options.parseWithAI THEN "parse" ELSE "cards"
  /\ UNCHANGED <<mockMode, session, lyrics, options, response, dbCards,
                 batchStart, results, cardIndex, inflight, invoked, batchLog>>
  /\ UNCHANGED <<moreVars, progVars, jsonVars, genVars, cardLog>>

\* parseLyrics in mock mode
ParseMock ==
  /\ pc = "parse"
  /\ mockMode
  /\ results' = MockResults(lyrics)
  /\ pc' = "update"
  /\ UNCHANGED <<parsedLines, mockMode, session, lyrics, options, response, dbSongs, dbLines,
                 dbCards, batchStart, cardIndex, inflight, invoked, batchLog>>
  /\ UNCHANGED <<moreVars, progVars, jsonVars, genVars, cardLog>>

\* the call is started and not awaited
AwaitResolved_NotAwaited == TRUE

\* the handler runs on only when the call it awaits has finished
AwaitResolved == inflight = 0

\* the loop of parseLyrics starts the LLM call of the batch at batchStart
BatchInvoke ==
  /\ pc = "parse"
  /\ ~mockMode
  /\ AwaitResolved
  /\ batchStart < Len(lyrics)
  /\ inflight' = inflight + 1
  /\ invoked' = Append(invoked, [task |-> "parse", at |-> batchStart])
  /\ UNCHANGED <<parsedLines, mockMode, session, lyrics, options, pc, response, dbSongs, dbLines,
                 dbCards, batchStart, results, cardIndex, batchLog>>
  /\ UNCHANGED <<moreVars, progVars, jsonVars, genVars, cardLog>>

\* the call finishes; the loop pushes the batch's results and moves on, and
\* parseLyrics returns after the last batch
BatchReturn ==
  /\ pc = "parse"
  /\ ~mockMode
  /\ inflight > 0
  /\ \E answer \in BatchAnswers(BatchOf(lyrics, batchStart)) :
       LET st == BatchStep([i |-> batchStart, results |-> results], answer)
       IN /\ batchStart' = st.i
          /\ results' = st.results
          /\ batchLog' = Append(batchLog, [start |-> batchStart, answer |-> answer])
          /\ pc' = IF st.i < Len(lyrics) THEN "parse" ELSE "update"
  /\ inflight' = inflight - 1
  /\ UNCHANGED <<parsedLines, mockMode, session, lyrics, options, response, dbSongs, dbLines,
                 dbCards, cardIndex, invoked>>
  /\ UNCHANGED <<moreVars, progVars, jsonVars, genVars, cardLog>>

\* LineUpdate that hands the whole entry to updateLine
LineUpdate_WholeEntry(parsed) ==
  [cols |-> {"lineNumber", "contentJa", "contentZh"},
   lineNumber |-> parsed.lineNumber, contentJa |-> parsed.contentJa,
   contentZh |-> parsed.contentZh, furigana |-> JNull]

\* the columns the handler sets on a line from its entry of aiParsed: the
\* translation, and the furigana when the entry's furigana string parses
LineUpdate(parsed) ==
  LET f == IF parsed.furigana # EmptyText /\ parsed.furigana # EmptyArrayText
           THEN JSONparse(parsed.furigana)
           ELSE ParseFail
  IN [cols |-> {"contentZh"} \cup (IF f.ok THEN {"furigana"} ELSE {}),
      lineNumber |-> parsed.lineNumber, contentJa |-> parsed.contentJa,
      contentZh |-> parsed.contentZh, furigana |-> f.val]

\* update(lines).set(input): the columns named in input.cols are written
updateLine(row, input) ==
  [lineNumber |-> IF "lineNumber" \in input.cols THEN input.lineNumber ELSE row.lineNumber,
   contentJa |-> IF "contentJa" \in input.cols THEN input.contentJa ELSE row.contentJa,
   contentZh |-> IF "contentZh" \in input.cols THEN input.contentZh ELSE row.contentZh,
   furigana |-> IF "furigana" \in input.cols THEN input.furigana ELSE row.furigana]

\* orderBy asc(lineNumber), as an insertion sort that keeps equal rows in order
RECURSIVE InsertByLineNumber(_, _)
InsertByLineNumber(row, sorted) ==
  IF sorted = << >> THEN <<row>>
  ELSE IF row.lineNumber < Head(sorted).lineNumber THEN <<row>> \o sorted
  ELSE <<Head(sorted)>> \o InsertByLineNumber(row, Tail(sorted))

RECURSIVE SortByLineNumber(_)
SortByLineNumber(rows) ==
  IF rows = << >> THEN << >>
  ELSE InsertByLineNumber(rows[Len(rows)], SortByLineNumber(SubSeq(rows, 1, Len(rows) - 1)))

getLinesBySongId(rows) == SortByLineNumber(rows)

\* the handler updates every created line that has an entry in aiParsed, then
\* reads the lines back
UpdateLines ==
  /\ pc = "update"
  /\ dbLines' = [k \in 1..Len(dbLines) |->
                   IF k <= Len(results)
                   THEN updateLine(dbLines[k], LineUpdate(results[k]))
                   ELSE dbLines[k]]
  /\ parsedLines' = getLinesBySongId(dbLines')
  /\ pc' = "cards"
  /\ UNCHANGED <<mockMode, session, lyrics, options, response, dbSongs, dbCards,
                 batchStart, results, cardIndex, inflight, invoked, batchLog>>
  /\ UNCHANGED <<moreVars, progVars, jsonVars, genVars, cardLog>>

createCard(input) ==
  [lineNumber |-> input.lineNumber, word |-> input.word,
   partOfSpeech |-> IF input.partOfSpeech = "" THEN "other" ELSE input.partOfSpeech,
   exampleSentence |-> input.exampleSentence]

\* the entry of cardLog for a call at line n that came to r, the handler
\* taking count cards of it: cards.slice(0, count)
Logged(n, kind, r, count) ==
  [at |-> n, kind |-> kind, failed |-> r.threw,
   cards |-> SubSeq(r.value, 1, Min(Len(r.value), count))]

\* a part_of_speech column that takes any text
InsertAccepted_AnyText(row) == TRUE

\* the insert of a card row: the part_of_speech column is an enum
InsertAccepted(row) == row.partOfSpeech \in validPartOfSpeech

\* the orders in which the inserts started together by Promise.all can reach
\* the table
InsertionOrders(rows) ==
  {[i \in 1..Len(rows) |-> rows[p[i]]] : p \in Permutations(1..Len(rows))}

\* the cards the handler saves for a line from what generateCardsFromLine gave
SavedCards(r, line) ==
  IF r.threw \/ ~r.isArray THEN << >>
  ELSE [j \in 1..Min(Len(r.value), options.cardsPerLine) |->
          createCard([lineNumber |-> line.lineNumber, word |-> r.value[j].word,
                      partOfSpeech |-> normalizePartOfSpeech(r.value[j].partOfSpeech),
                      exampleSentence |-> line.contentJa])]

GeneratingCards == pc = "cards" /\ options.generateCards /\ cardIndex <= Len(parsedLines)

\* mock mode: generateMockCard picks one of MOCK_WORDS
CardMock ==
  /\ GeneratingCards
  /\ mockMode
  /\ \E w \in 1..Len(MOCK_WORDS) :
       /\ dbCards' = dbCards \o SavedCards(Returned(<<MOCK_WORDS[w]>>), parsedLines[cardIndex])
       /\ cardLog' = Append(cardLog, Logged(cardIndex, "mock", Returned(<<MOCK_WORDS[w]>>), options.cardsPerLine))
  /\ cardIndex' = cardIndex + 1
  /\ UNCHANGED <<parsedLines, mockMode, session, lyrics, options, pc, response, dbSongs, dbLines,
                 batchStart, results, inflight, invoked, batchLog>>
  /\ UNCHANGED <<moreVars, progVars, jsonVars, genVars>>

\* the loop over the lines starts the LLM call for the line at cardIndex
CardInvoke ==
  /\ GeneratingCards
  /\ ~mockMode
  /\ AwaitResolved
  /\ inflight' = inflight + 1
  /\ invoked' = Append(invoked, [task |-> "cards", at |-> cardIndex])
  /\ UNCHANGED <<parsedLines, mockMode, session, lyrics, options, pc, response, dbSongs, dbLines,
                 dbCards, batchStart, results, cardIndex, batchLog>>
  /\ UNCHANGED <<moreVars, progVars, jsonVars, genVars, cardLog>>

\* the call finishes; the handler saves the cards and moves to the next line
CardReturn ==
  /\ GeneratingCards
  /\ ~mockMode
  /\ inflight > 0
  /\ \E answer \in CardAnswers :
       LET r == generateCardsFromLine(answer)
       IN /\ \E saved \in InsertionOrders(SavedCards(r, parsedLines[cardIndex])) :
               dbCards' = dbCards \o saved
          /\ cardLog' = Append(cardLog, Logged(cardIndex, answer.kind, r, options.cardsPerLine))
  /\ cardIndex' = cardIndex + 1
  /\ inflight' = inflight - 1
  /\ UNCHANGED <<parsedLines, mockMode, session, lyrics, options, pc, response, dbSongs, dbLines,
                 batchStart, results, invoked, batchLog>>
  /\ UNCHANGED <<moreVars, progVars, jsonVars, genVars>>

\* the success response
ImportRespond ==
  /\ pc = "cards"
  /\ ~GeneratingCards
  /\ response' = 200
  /\ pc' = "done"
  /\ UNCHANGED <<parsedLines, mockMode, session, lyrics, options, dbSongs, dbLines, dbCards,
                 batchStart, results, cardIndex, inflight, invoked, batchLog>>
  /\ UNCHANGED <<moreVars, progVars, jsonVars, genVars, cardLog>>

(***************************************************************************)
(* PATCH /api/songs/[id]/lines, sent for the imported song after the       *)
(* import has answered.                                                    *)
(***************************************************************************)
\* highest line number a request names
MaxPatchLine == 2
\* the values of end a request's span is sent with
PatchEnds == {1, 2}

\* the furigana string of a request: one span from 0 to end
SpanText(end) ==
  <<"[", "{", "\"", "s", "t", "a", "r", "t", "\"", ":", "0", ",", "\"",
    "e", "n", "d", "\"", ":">>
  \o <<DigitChar(end)>> \o <<"}", "]">>

\* a request: who sends it, whether its body passes updateLinesSchema, and
\* its one entry of lines
PatchRequest(who, valid, n, end) ==
  [who |-> who, valid |-> valid, lineNumber |-> n, end |-> end]

\* the requests sent: one without a session, one of another user, one with an
\* invalid body, and the creator's for the line numbers 0..MaxPatchLine
PatchRequests ==
  {PatchRequest(who, TRUE, 1, 1) : who \in {"none", "other"}}
  \cup {PatchRequest("creator", FALSE, 1, 1)}
  \cup {PatchRequest("creator", TRUE, n, end) : n \in 0..MaxPatchLine, end \in PatchEnds}

\* lineMap.get(n): the last of the rows that carries the number n, 0 for none
LineByNumber(rows, n) ==
  LET hits == {k \in 1..Len(rows) : rows[k].lineNumber = n}
  IN IF hits = {} THEN 0 ELSE CHOOSE k \in hits : \A j \in hits : j <= k

PatchStatus(r) ==
  IF r.who = "none" THEN 401
  ELSE IF dbSongs = 0 THEN 404
  ELSE IF r.who # "creator" THEN 403
  ELSE IF ~r.valid THEN 400
  ELSE 200

\* the handler: 401 without a session, 404 without the song, 403 for another
\* user than the creator, 400 for an invalid body; else the line with the
\* entry's number, when there is one, gets the entry's furigana string. The
\* handler neither reads nor writes cards: the requests are sent for songs
\* imported without cards.
PatchLines(r) ==
  /\ pc = "done"
  /\ response = 200
  /\ ~options.generateCards
  /\ response' = PatchStatus(r)
  /\ LET k == LineByNumber(dbLines, r.lineNumber)
     IN dbLines' = IF PatchStatus(r) = 200 /\ k # 0
                   THEN [dbLines EXCEPT ![k] =
                           updateLine(@, [cols |-> {"furigana"}, lineNumber |-> @.lineNumber,
                                          contentJa |-> @.contentJa, contentZh |-> @.contentZh,
                                          furigana |-> JStr(SpanText(r.end))])]
                   ELSE dbLines
  /\ pc' = "patched"
  /\ UNCHANGED <<parsedLines, mockMode, session, lyrics, options, dbSongs, dbCards,
                 batchStart, results, cardIndex, inflight, invoked, batchLog>>
  /\ UNCHANGED <<moreVars, progVars, jsonVars, genVars, cardLog>>

NextImport ==
  \/ ImportUnauthorized
  \/ ImportInvalid
  \/ ImportCreate
  \/ ParseMock
  \/ BatchInvoke
  \/ BatchReturn
  \/ UpdateLines
  \/ CardMock
  \/ CardInvoke
  \/ CardReturn
  \/ ImportRespond
  \/ \E r \in PatchRequests : PatchLines(r)


(***************************************************************************)
(* POST /api/cards/generate (app/api/cards/[id]/route.ts): cards for one   *)
(* line, generated by one call and saved.                                  *)
(***************************************************************************)
\* generateCardsSchema: count is between 1 and this
GenerateMaxCount == 5
\* most candidates one answer holds
MaxGenCandidates == 5

GenerateBodies ==
  {[valid |-> FALSE, count |-> 1]}
  \cup {[valid |-> TRUE, count |-> c] : c \in 1..GenerateMaxCount}

\* the line getLineById finds
GenerateLine == [lineNumber |-> 1, contentJa |-> PlainLine(1)]

InitGenerate ==
  /\ mockMode \in BOOLEAN
  /\ session \in BOOLEAN
  /\ lyrics = << >>
  /\ options = [parseWithAI |-> FALSE, generateCards |-> FALSE, cardsPerLine |-> 1]
  /\ pc = "idle"
  /\ response = 0
  /\ dbSongs = 0
  /\ dbLines = << >>
  /\ dbCards = << >>
  /\ parsedLines = << >>
  /\ batchStart = 0
  /\ results = << >>
  /\ cardIndex = 1
  /\ inflight = 0
  /\ invoked = << >>
  /\ batchLog = << >>
  /\ cardLog = << >>
  /\ gpc = "start"
  /\ gbody \in GenerateBodies
  /\ glineFound \in BOOLEAN
  /\ gresponse = 0
  /\ gdata = << >>
  /\ gcandidates = << >>

\* no generation request
IdleGenerate ==
  /\ gpc = "idle"
  /\ gbody = [valid |-> FALSE, count |-> 1]
  /\ glineFound = FALSE
  /\ gresponse = 0
  /\ gdata = << >>
  /\ gcandidates = << >>

importButCards == <<mockMode, session, lyrics, options, pc, response, dbSongs, dbLines,
                    parsedLines, batchStart, results, cardIndex, batchLog>>

\* the body does not pass generateCardsSchema: 400
GenerateInvalid ==
  /\ gpc = "start"
  /\ ~gbody.valid
  /\ gresponse' = 400
  /\ gpc' = "done"
  /\ UNCHANGED <<gbody, glineFound, gdata, gcandidates, cardLog>>
  /\ UNCHANGED <<moreVars, progVars, jsonVars, importVars>>

\* no such line: 404
GenerateNoLine ==
  /\ gpc = "start"
  /\ gbody.valid
  /\ ~glineFound
  /\ gresponse' = 404
  /\ gpc' = "done"
  /\ UNCHANGED <<gbody, glineFound, gdata, gcandidates, cardLog>>
  /\ UNCHANGED <<moreVars, progVars, jsonVars, importVars>>

\* the handler after generateCardsFromLine came to r: the rows it hands to
\* createCard, in order, and the error that takes it to its catch, << >> for none
GenerateSave(r) ==
  IF r.threw THEN [rows |-> << >>, error |-> r.message]
  ELSE IF ~r.isArray THEN [rows |-> << >>, error |-> NotAFunctionMessage]
  ELSE LET rows == [j \in 1..Min(Len(r.value), gbody.count) |->
                      createCard([lineNumber |-> GenerateLine.lineNumber,
                                  word |-> r.value[j].word,
                                  partOfSpeech |-> r.value[j].partOfSpeech,
                                  exampleSentence |-> GenerateLine.contentJa])]
       IN [rows |-> rows,
           error |-> IF \A j \in 1..Len(rows) : InsertAccepted(rows[j]) THEN << >>
                     ELSE InvalidEnumMessage]

\* the status of the response: the catch looks for "API key" in the message
GenerateStatus(error) ==
  IF error = << >> THEN 200
  ELSE IF includes(error, "API key") THEN 503
  ELSE 500

\* the rest of the handler once generateCardsFromLine came to r: every insert
\* the table accepts is made, in some order; one refused insert fails the request
GenerateFinish(r) ==
  /\ gcandidates' = r.value
  /\ \E saved \in InsertionOrders(SelectSeq(GenerateSave(r).rows, InsertAccepted)) :
       dbCards' = dbCards \o saved
  /\ gdata' = IF GenerateSave(r).error = << >> THEN GenerateSave(r).rows ELSE << >>
  /\ gresponse' = GenerateStatus(GenerateSave(r).error)
  /\ gpc' = "done"

\* mock mode: generateMockCard picks one of MOCK_WORDS
GenerateMock ==
  /\ gpc = "start"
  /\ gbody.valid
  /\ glineFound
  /\ mockMode
  /\ \E w \in 1..Len(MOCK_WORDS) :
       /\ GenerateFinish(Returned(<<MOCK_WORDS[w]>>))
       /\ cardLog' = Append(cardLog, Logged(1, "mock", Returned(<<MOCK_WORDS[w]>>), gbody.count))
  /\ UNCHANGED <<gbody, glineFound, inflight, invoked>>
  /\ UNCHANGED <<moreVars, progVars, jsonVars, importButCards>>

\* the handler starts the one LLM call for the line
GenerateInvoke ==
  /\ gpc = "start"
  /\ gbody.valid
  /\ glineFound
  /\ ~mockMode
  /\ inflight' = inflight + 1
  /\ invoked' = Append(invoked, [task |-> "cards", at |-> 1])
  /\ gpc' = "await"
  /\ UNCHANGED <<gbody, glineFound, gresponse, gdata, gcandidates, cardLog, dbCards>>
  /\ UNCHANGED <<moreVars, progVars, jsonVars, importButCards>>

\* the call finishes; the handler saves the cards and responds
GenerateReturn ==
  /\ gpc = "await"
  /\ inflight > 0
  /\ \E answer \in CardAnswersUpTo(MaxGenCandidates) :
       /\ GenerateFinish(generateCardsFromLine(answer))
       /\ cardLog' = Append(cardLog, Logged(1, answer.kind, generateCardsFromLine(answer), gbody.count))
  /\ inflight' = inflight - 1
  /\ UNCHANGED <<gbody, glineFound, invoked>>
  /\ UNCHANGED <<moreVars, progVars, jsonVars, importButCards>>

NextGenerate ==
  \/ GenerateInvalid
  \/ GenerateNoLine
  \/ GenerateMock
  \/ GenerateInvoke
  \/ GenerateReturn


(***************************************************************************)
(* The learning state tracker: getOrCreateProgress and updateCardStatus    *)
(* (services/cards.service.ts) under handleUpdateProgress and GET          *)
(* (app/api/cards/[id]/progress/route.ts). Every await on the database is  *)
(* a step, so requests for the same pair interleave between their queries. *)
(***************************************************************************)
baseButProgress == <<jsonVars, importVars, genVars, cardLog>>

\* most requests for the pair
MaxRequests == 3
\* largest review count of the row the pair starts with
MaxInitialReviews == 1

Requests == 1..MaxRequests

\* cardStatusEnum, and updateProgressSchema.status
CardStatuses == {"new", "learning", "mastered"}

\* a PATCH or POST with a status (one outside the enum, one without a
\* session), or a GET
RequestInputs ==
  {[kind |-> "mark", session |-> TRUE, status |-> s] : s \in CardStatuses \cup {"reviewing"}}
  \cup {[kind |-> "mark", session |-> FALSE, status |-> "learning"],
        [kind |-> "get", session |-> TRUE, status |-> "new"]}

NoRequest ==
  [input |-> [kind |-> "none", session |-> FALSE, status |-> "new"],
   pc |-> "idle", response |-> 0]

InProgress(r) == req[r].pc \notin {"idle", "done"}

IdleProgress ==
  /\ cardProgress = << >>
  /\ req = [r \in Requests |-> NoRequest]
  /\ initialRows = << >>
  /\ served = << >>
  /\ overlapped = FALSE

InitProgress ==
  /\ cardProgress \in {<< >>} \cup {<<[status |-> s, reviewCount |-> n]>> :
                             s \in CardStatuses, n \in 0..MaxInitialReviews}
  /\ initialRows = cardProgress
  /\ req = [r \in Requests |-> NoRequest]
  /\ served = << >>
  /\ overlapped = FALSE

Respond(r, status) == [req EXCEPT ![r].pc = "done", ![r].response = status]

IsMark(r) == req[r].input.kind = "mark"

\* a request for the pair arrives
ProgressArrive(r) ==
  /\ req[r].pc = "idle"
  /\ IF r = 1 THEN TRUE ELSE req[r - 1].pc # "idle"
  /\ \E in \in RequestInputs :
       req' = [req EXCEPT ![r] = [input |-> in, pc |-> "start", response |-> 0]]
  /\ overlapped' = (overlapped \/ \E q \in Requests : InProgress(q))
  /\ UNCHANGED <<cardProgress, initialRows, served>>
  /\ UNCHANGED <<moreVars, baseButProgress>>

\* no session: 401
ProgressUnauthorized(r) ==
  /\ req[r].pc = "start"
  /\ ~req[r].input.session
  /\ req' = Respond(r, 401)
  /\ UNCHANGED <<cardProgress, initialRows, served, overlapped>>
  /\ UNCHANGED <<moreVars, baseButProgress>>

\* the body does not pass updateProgressSchema: 400
ProgressInvalid(r) ==
  /\ req[r].pc = "start"
  /\ req[r].input.session
  /\ IsMark(r)
  /\ req[r].input.status \notin CardStatuses
  /\ req' = Respond(r, 400)
  /\ UNCHANGED <<cardProgress, initialRows, served, overlapped>>
  /\ UNCHANGED <<moreVars, baseButProgress>>

\* getOrCreateProgress: the findFirst query
ProgressFind(r) ==
  /\ req[r].pc = "start"
  /\ req[r].input.session
  /\ IsMark(r) => req[r].input.status \in CardStatuses
  /\ req' = IF cardProgress = << >> THEN [req EXCEPT ![r].pc = "insert"]
            ELSE IF IsMark(r) THEN [req EXCEPT ![r].pc = "update"]
            ELSE Respond(r, 200)
  /\ UNCHANGED <<cardProgress, initialRows, served, overlapped>>
  /\ UNCHANGED <<moreVars, baseButProgress>>

\* a card_progress table with no unique index on (user, card)
UniqueViolation_NoIndex(table) == FALSE

\* the unique index card_progress_user_card_idx refuses a second row of the pair
UniqueViolation(table) == table # << >>

\* getOrCreateProgress: the insert of a row (new, 0); refused, it throws and
\* the handler answers 500
ProgressInsert(r) ==
  /\ req[r].pc = "insert"
  /\ IF UniqueViolation(cardProgress)
     THEN /\ req' = Respond(r, 500)
          /\ served' = IF IsMark(r)
                       THEN Append(served, [target |-> req[r].input.status, response |-> 500])
                       ELSE served
          /\ UNCHANGED cardProgress
     ELSE /\ cardProgress' = Append(cardProgress, [status |-> "new", reviewCount |-> 0])
          /\ req' = IF IsMark(r) THEN [req EXCEPT ![r].pc = "update"] ELSE Respond(r, 200)
          /\ UNCHANGED served
  /\ UNCHANGED <<initialRows, overlapped>>
  /\ UNCHANGED <<moreVars, baseButProgress>>

\* the update that leaves the review count alone
UpdatedRow_NoIncrement(row, status) == [status |-> status, reviewCount |-> row.reviewCount]

\* SET status, review_count = review_count + 1 on a row
UpdatedRow(row, status) == [status |-> status, reviewCount |-> row.reviewCount + 1]

\* updateCardStatus: the update statement, on every row of the pair
ProgressUpdate(r) ==
  /\ req[r].pc = "update"
  /\ cardProgress' = [i \in 1..Len(cardProgress) |-> UpdatedRow(cardProgress[i], req[r].input.status)]
  /\ req' = Respond(r, 200)
  /\ served' = Append(served, [target |-> req[r].input.status, response |-> 200])
  /\ UNCHANGED <<initialRows, overlapped>>
  /\ UNCHANGED <<moreVars, baseButProgress>>

NextProgress ==
  \E r \in Requests :
    \/ ProgressArrive(r)
    \/ ProgressUnauthorized(r)
    \/ ProgressInvalid(r)
    \/ ProgressFind(r)
    \/ ProgressInsert(r)
    \/ ProgressUpdate(r)


(***************************************************************************)
(* The study session: CardsPage (app/cards/page.tsx) mounts StudyMode      *)
(* (components/cards) over studyCards; a mark calls handleStudyStatusChange*)
(* which sends a PATCH and goes on when the fetch settles.                 *)
(***************************************************************************)
\* most cards on the page
MaxCards == 2
\* most marks made on the page
MaxMarks == 1

baseVars == <<jsonVars, importVars, genVars, cardLog, progVars>>

\* all but the study session's variables
butStudy == <<baseVars, libraryVars, convVars, audioVars>>

CardIds == 1..MaxCards

\* the session caps offered: 0 is all cards
StudyLimits == 0..(MaxCards - 1)

\* the updates handleStudyStatusChange can have in flight
Updates ==
  [n : 1..MaxMarks, cardId : CardIds, status : {"mastered", "learning"},
   oldStatus : CardStatuses]

\* the answers of PATCH /api/cards/[id]/progress
ProgressResponses == {200, 401, 500}

\* the counts by status of a list of cards
CountStatus(list, status) == Cardinality({i \in 1..Len(list) : list[i].status = status})

StatsOf(list) == [s \in CardStatuses |-> CountStatus(list, s)]

HasStatus(list, status) == SelectSeq(list, LAMBDA c : c.status = status)

\* studyCards that cuts the list before it sorts it
studyCards_SliceBeforeSort(list, limit) ==
  LET cut == IF limit = 0 \/ limit >= Len(list) THEN list ELSE SubSeq(list, 1, limit)
  IN HasStatus(cut, "new") \o HasStatus(cut, "learning") \o HasStatus(cut, "mastered")

\* studyCards: the stable sort by { new: 0, learning: 1, mastered: 2 },
\* then slice(0, studyLimit) unless the limit is 0
studyCards(list, limit) ==
  LET sorted == HasStatus(list, "new") \o HasStatus(list, "learning") \o HasStatus(list, "mastered")
  IN IF limit = 0 \/ limit >= Len(sorted) THEN sorted ELSE SubSeq(sorted, 1, limit)

\* the cards prop of StudyMode
cards == studyCards(allCards, studyLimit)

\* no completion summary is on display
NoSummary == [total |-> 0, reviewed |-> 0, mastered |-> 0, learning |-> 0]

\* a page with no cards, out of study mode
IdleStudy ==
  /\ allCards = << >>
  /\ stats = StatsOf(<< >>)
  /\ studyLimit = 0
  /\ studyMode = FALSE
  /\ pageError = FALSE
  /\ currentIndex = 0
  /\ masteredIds = {}
  /\ learningIds = {}
  /\ showComplete = FALSE
  /\ reported = NoSummary
  /\ pending = {}
  /\ refreshes = 0
  /\ serverCards = [c \in CardIds |-> [status |-> "new", reviewCount |-> 0]]
  /\ marksMade = 0

\* the page after its first fetchCards: the cards carry the server's progress
InitStudy ==
  /\ \E n \in 0..MaxCards : \E st \in [1..n -> CardStatuses] :
       /\ allCards = [i \in 1..n |->
                        [id |-> i, status |-> st[i],
                         reviewCount |-> IF st[i] = "new" THEN 0 ELSE 1]]
       /\ serverCards = [c \in CardIds |->
                           IF c <= n
                           THEN [status |-> st[c],
                                 reviewCount |-> IF st[c] = "new" THEN 0 ELSE 1]
                           ELSE [status |-> "new", reviewCount |-> 0]]
  /\ stats = StatsOf(allCards)
  /\ studyLimit \in StudyLimits
  /\ studyMode = FALSE
  /\ pageError = FALSE
  /\ currentIndex = 0
  /\ masteredIds = {}
  /\ learningIds = {}
  /\ showComplete = FALSE
  /\ reported = NoSummary
  /\ pending = {}
  /\ refreshes = 0
  /\ marksMade = 0

pageVars == <<allCards, stats, pageError, serverCards>>

sessionVars == <<currentIndex, masteredIds, learningIds, showComplete>>

\* the study settings dialog: a cap is chosen
SetStudyLimit(limit) ==
  /\ ~studyMode /\ ~pageError
  /\ stats["new"] + stats["learning"] + stats["mastered"] > 0
  /\ limit # studyLimit
  /\ studyLimit' = limit
  /\ UNCHANGED <<pageVars, studyMode, sessionVars, reported, pending, refreshes, marksMade>>
  /\ UNCHANGED butStudy

\* the dialog's start button mounts StudyMode with its initial state
StartStudy ==
  /\ ~studyMode /\ ~pageError
  /\ stats["new"] + stats["learning"] + stats["mastered"] > 0
  /\ studyMode' = TRUE
  /\ UNCHANGED <<pageVars, studyLimit, sessionVars, reported, pending, refreshes, marksMade>>
  /\ UNCHANGED butStudy

Mounted == studyMode /\ ~pageError

\* the summary handleNext hands to onComplete: the callback closes over the
\* sets of the render in which the mark button was pressed
Summary(mastered, learning) ==
  [total |-> Len(cards), reviewed |-> Len(cards),
   mastered |-> Cardinality(mastered), learning |-> Cardinality(learning)]

\* handleMarkMastered and handleMarkLearning: the sets are updated, the
\* PATCH is sent by handleStudyStatusChange, then handleNext runs
StudyMark(status) ==
  /\ Mounted /\ ~showComplete
  /\ marksMade < MaxMarks
  /\ currentIndex < Len(cards)
  /\ LET currentCard == cards[currentIndex + 1] IN
       /\ masteredIds' = IF status = "mastered" THEN masteredIds \cup {currentCard.id}
                         ELSE masteredIds \ {currentCard.id}
       /\ learningIds' = IF status = "learning" THEN learningIds \cup {currentCard.id}
                         ELSE learningIds \ {currentCard.id}
       /\ pending' = pending \cup
            {[n |-> marksMade + 1, cardId |-> currentCard.id, status |-> status,
              oldStatus |-> currentCard.status]}
       /\ marksMade' = marksMade + 1
       /\ IF currentIndex < Len(cards) - 1
          THEN /\ currentIndex' = currentIndex + 1
               /\ UNCHANGED <<showComplete, reported, refreshes>>
          ELSE /\ showComplete' = TRUE
               /\ reported' = Summary(masteredIds, learningIds)
               /\ refreshes' = refreshes + 1
               /\ UNCHANGED currentIndex
  /\ UNCHANGED <<pageVars, studyLimit, studyMode>>
  /\ UNCHANGED butStudy

\* the next button, disabled on the last card
StudyNext ==
  /\ Mounted /\ ~showComplete
  /\ currentIndex < Len(cards) - 1
  /\ currentIndex' = currentIndex + 1
  /\ UNCHANGED <<pageVars, studyLimit, studyMode, masteredIds, learningIds,
                 showComplete, reported, pending, refreshes, marksMade>>
  /\ UNCHANGED butStudy

\* handlePrevious
StudyPrevious ==
  /\ Mounted /\ ~showComplete
  /\ currentIndex > 0
  /\ currentIndex' = currentIndex - 1
  /\ UNCHANGED <<pageVars, studyLimit, studyMode, masteredIds, learningIds,
                 showComplete, reported, pending, refreshes, marksMade>>
  /\ UNCHANGED butStudy

\* handleRestart, on the completion screen
StudyRestart ==
  /\ Mounted /\ showComplete
  /\ currentIndex' = 0
  /\ masteredIds' = {}
  /\ learningIds' = {}
  /\ showComplete' = FALSE
  /\ reported' = NoSummary
  /\ UNCHANGED <<pageVars, studyLimit, studyMode, pending, refreshes, marksMade>>
  /\ UNCHANGED butStudy

\* leaving: the completion screen's button, or handleClose and, with some
\* progress, handleConfirmExit, which reports the session so far; the
\* component is unmounted and its state is gone
StudyClose ==
  /\ Mounted
  /\ studyMode' = FALSE
  /\ currentIndex' = 0
  /\ masteredIds' = {}
  /\ learningIds' = {}
  /\ showComplete' = FALSE
  /\ reported' = NoSummary
  /\ refreshes' = IF ~showComplete /\ (masteredIds # {} \/ learningIds # {})
                  THEN refreshes + 1 ELSE refreshes
  /\ UNCHANGED <<pageVars, studyLimit, pending, marksMade>>
  /\ UNCHANGED butStudy

\* handleStudyStatusChange after its await: a rejected fetch goes to the
\* catch; any answer goes on to setSongGroups and setStats
AfterUpdate(p, answer) ==
  IF answer = 0
  THEN [cards |-> allCards, stats |-> stats]
  ELSE [cards |-> [i \in 1..Len(allCards) |->
                     IF allCards[i].id = p.cardId
                     THEN [allCards[i] EXCEPT !.status = p.status,
                                              !.reviewCount = @ + 1]
                     ELSE allCards[i]],
        stats |-> IF p.oldStatus # p.status
                  THEN [stats EXCEPT ![p.oldStatus] = @ - 1, ![p.status] = @ + 1]
                  ELSE stats]

\* the server answers an update and its fetch settles: 200 after
\* updateCardStatus wrote the status and counted the review, 401 or 500
\* without a write, or no answer (0) and the fetch rejects
SettleUpdate(p, answer) ==
  /\ p \in pending
  /\ pending' = pending \ {p}
  /\ serverCards' =
       IF answer = 200
       THEN [serverCards EXCEPT ![p.cardId] =
               [status |-> p.status, reviewCount |-> @.reviewCount + 1]]
       ELSE serverCards
  /\ allCards' = AfterUpdate(p, answer).cards
  /\ stats' = AfterUpdate(p, answer).stats
  /\ UNCHANGED pageError
  /\ UNCHANGED <<studyLimit, studyMode, sessionVars, reported, refreshes, marksMade>>
  /\ UNCHANGED butStudy

\* a fetchCards started by onComplete settles: the page takes the server's
\* cards and counts, or shows its error screen
SettleRefresh(ok) ==
  /\ refreshes > 0
  /\ refreshes' = refreshes - 1
  /\ IF ok
     THEN /\ allCards' = [i \in 1..Len(allCards) |->
                            [id |-> allCards[i].id,
                             status |-> serverCards[allCards[i].id].status,
                             reviewCount |-> serverCards[allCards[i].id].reviewCount]]
          /\ stats' = StatsOf(allCards')
          /\ UNCHANGED pageError
     ELSE /\ pageError' = TRUE
          /\ UNCHANGED <<allCards, stats>>
  /\ UNCHANGED serverCards
  /\ UNCHANGED <<studyLimit, studyMode, sessionVars, reported, pending, marksMade>>
  /\ UNCHANGED butStudy

NextStudy ==
  \/ \E limit \in StudyLimits : SetStudyLimit(limit)
  \/ StartStudy
  \/ \E status \in {"mastered", "learning"} : StudyMark(status)
  \/ StudyNext
  \/ StudyPrevious
  \/ StudyRestart
  \/ StudyClose
  \/ \E p \in Updates, answer \in ProgressResponses \cup {0} : SettleUpdate(p, answer)
  \/ \E ok \in BOOLEAN : SettleRefresh(ok)


(***************************************************************************)
(* The library requests: DELETE /api/songs/[id] (app/api/songs/[id]),      *)
(* PATCH and DELETE /api/cards/[id] (app/api/cards/[id]) over the tables   *)
(* of db/schema with their foreign keys.                                   *)
(***************************************************************************)
\* most songs in the tables
MaxSongs == 2

\* the signed-in users
Users == {"u1", "u2"}

\* the requester without a session, and the creator_id set to null
Anonymous == ""

\* one line and one card more than songs: the first song has two lines
SongIds == 1..MaxSongs
LineIds == 1..(MaxSongs + 1)
LibraryCardIds == 1..(MaxSongs + 1)

\* lines.song_id and cards.line_id: the row each row was created under
LineSong(l) == ((l - 1) % MaxSongs) + 1
CardLine(c) == c
CardSong(c) == LineSong(CardLine(c))

\* the words a card is given
CardWords == {"a", "b"}

IdleLibrary ==
  /\ songsTable = {}
  /\ songCreator = [s \in SongIds |-> Anonymous]
  /\ linesTable = {}
  /\ cardsTable = {}
  /\ cardWord = [c \in LibraryCardIds |-> "a"]
  /\ deletedSongs = {}
  /\ requester = Anonymous

\* tables that respect the foreign keys
InitLibrary ==
  /\ songsTable \in SUBSET SongIds
  /\ songCreator \in [SongIds -> Users \cup {Anonymous}]
  /\ linesTable \in SUBSET {l \in LineIds : LineSong(l) \in songsTable}
  /\ cardsTable \in SUBSET {c \in LibraryCardIds : CardLine(c) \in linesTable}
  /\ cardWord = [c \in LibraryCardIds |-> "a"]
  /\ deletedSongs = {}
  /\ requester = Anonymous

studyAndBase == <<studyVars, baseVars, convVars, audioVars>>

\* DELETE FROM songs without the cascade to the cards of its lines
deleteSong_LinesOnly(id) ==
  [songs |-> songsTable \ {id},
   lines |-> {l \in linesTable : LineSong(l) # id},
   cards |-> cardsTable]

\* deleteSong: DELETE FROM songs WHERE id; lines.song_id and cards.line_id
\* are declared ON DELETE CASCADE
deleteSong(id) ==
  [songs |-> songsTable \ {id},
   lines |-> {l \in linesTable : LineSong(l) # id},
   cards |-> {c \in cardsTable : CardSong(c) # id}]

\* the answer of DELETE /api/songs/[id]
DeleteSongStatus(user, id) ==
  IF user = Anonymous THEN 401
  ELSE IF id \notin songsTable THEN 404
  ELSE IF songCreator[id] # user THEN 403
  ELSE 200

\* DELETE /api/songs/[id]
DeleteSongRequest(user, id) ==
  /\ requester' = user
  /\ IF DeleteSongStatus(user, id) = 200
     THEN /\ songsTable' = deleteSong(id).songs
          /\ linesTable' = deleteSong(id).lines
          /\ cardsTable' = deleteSong(id).cards
          /\ deletedSongs' = deletedSongs \cup {id}
     ELSE UNCHANGED <<songsTable, linesTable, cardsTable, deletedSongs>>
  /\ UNCHANGED <<songCreator, cardWord>>
  /\ UNCHANGED studyAndBase

\* the answer of PATCH /api/cards/[id]
PatchCardStatus(id, valid) ==
  IF ~valid THEN 400
  ELSE IF id \notin cardsTable THEN 404
  ELSE 200

\* PATCH /api/cards/[id]: the body is validated, then updateCard
PatchCardRequest(user, id, valid, word) ==
  /\ requester' = user
  /\ cardWord' = IF PatchCardStatus(id, valid) = 200
                 THEN [cardWord EXCEPT ![id] = word] ELSE cardWord
  /\ UNCHANGED <<songsTable, songCreator, linesTable, cardsTable, deletedSongs>>
  /\ UNCHANGED studyAndBase

\* DELETE /api/cards/[id]: deleteCard, 404 when no row went
DeleteCardRequest(user, id) ==
  /\ requester' = user
  /\ cardsTable' = cardsTable \ {id}
  /\ UNCHANGED <<songsTable, songCreator, linesTable, cardWord, deletedSongs>>
  /\ UNCHANGED studyAndBase

NextLibrary ==
  \E user \in Users \cup {Anonymous} :
    \/ \E id \in SongIds : DeleteSongRequest(user, id)
    \/ \E id \in LibraryCardIds, valid \in BOOLEAN, word \in CardWords :
         PatchCardRequest(user, id, valid, word)
    \/ \E id \in LibraryCardIds : DeleteCardRequest(user, id)


(***************************************************************************)
(* The conversations: getConversations and createMessage                   *)
(* (services/conversations.service), GET /api/conversations and            *)
(* GET /api/v1/conversations.                                              *)
(***************************************************************************)
\* most conversations in the table
MaxConversations == 2
\* most createMessage calls
MaxCalls == 2

ConvIds == 1..MaxConversations
CallIds == 1..MaxCalls

\* the token counts of a message; 0 stands for none given as well
TokenCounts == {0, 1, 2}

NoCall == [conv |-> 0, tokens |-> 0, pc |-> "idle", currentTokens |-> 0]

NoListing == [route |-> "none", user |-> Anonymous, data |-> << >>]

IdleConversations ==
  /\ convOwner = [c \in ConvIds |-> "u1"]
  /\ convMatches = [c \in ConvIds |-> FALSE]
  /\ totalTokens = [c \in ConvIds |-> 0]
  /\ messageSum = [c \in ConvIds |-> 0]
  /\ calls = [k \in CallIds |-> NoCall]
  /\ listing = NoListing

\* conversations without messages yet
InitConversations ==
  /\ convOwner \in [ConvIds -> Users]
  /\ convMatches \in [ConvIds -> BOOLEAN]
  /\ totalTokens = [c \in ConvIds |-> 0]
  /\ messageSum = [c \in ConvIds |-> 0]
  /\ calls = [k \in CallIds |-> NoCall]
  /\ listing = NoListing

butConversations == <<studyVars, libraryVars, baseVars, audioVars>>

\* ORDER BY created_at DESC: the conversations that pass, newest first
RECURSIVE NewestFirst(_, _)
NewestFirst(n, passing) ==
  IF n = 0 THEN << >>
  ELSE (IF n \in passing THEN <<n>> ELSE << >>) \o NewestFirst(n - 1, passing)

\* LIMIT limit OFFSET (page - 1) * limit
Paginate(list, page, limit) ==
  SubSeq(list, (page - 1) * limit + 1,
         IF page * limit < Len(list) THEN page * limit ELSE Len(list))

\* the search condition alone, as GET /api/v1/conversations builds it
WhereSearch(c, q) == q => convMatches[c]

\* getConversations: and(eq(userId), or(ilike title, ilike summary))
getConversations(userId, q, page, limit) ==
  Paginate(NewestFirst(MaxConversations,
                       {c \in ConvIds : convOwner[c] = userId /\ WhereSearch(c, q)}),
           page, limit)

\* a caller lists the conversations of a user through the service
ListForUser(userId, q, page, limit) ==
  /\ listing' = [route |-> "service", user |-> userId,
                 data |-> getConversations(userId, q, page, limit)]
  /\ UNCHANGED <<convOwner, convMatches, totalTokens, messageSum, calls>>
  /\ UNCHANGED butConversations

\* GET /api/conversations: an empty list for everyone
ListApp(user) ==
  /\ listing' = [route |-> "/api/conversations", user |-> user, data |-> << >>]
  /\ UNCHANGED <<convOwner, convMatches, totalTokens, messageSum, calls>>
  /\ UNCHANGED butConversations

\* GET /api/v1/conversations: no session is read, the where clause is the
\* search condition or nothing
ListV1(user, q, page, limit) ==
  /\ listing' = [route |-> "/api/v1/conversations", user |-> user,
                 data |-> Paginate(NewestFirst(MaxConversations,
                                               {c \in ConvIds : WhereSearch(c, q)}),
                                   page, limit)]
  /\ UNCHANGED <<convOwner, convMatches, totalTokens, messageSum, calls>>
  /\ UNCHANGED butConversations

\* createMessage: the insert of the message row
MessageInsert(k, conv, tokens) ==
  /\ calls[k].pc = "idle"
  /\ IF k = 1 THEN TRUE ELSE calls[k - 1].pc # "idle"
  /\ messageSum' = [messageSum EXCEPT ![conv] = @ + tokens]
  /\ calls' = [calls EXCEPT ![k] = [conv |-> conv, tokens |-> tokens,
                                    pc |-> IF tokens # 0 THEN "read" ELSE "done",
                                    currentTokens |-> 0]]
  /\ UNCHANGED <<convOwner, convMatches, totalTokens, listing>>
  /\ UNCHANGED butConversations

\* createMessage: getConversationById, currentTokens
MessageRead(k) ==
  /\ calls[k].pc = "read"
  /\ calls' = [calls EXCEPT ![k].pc = "existing",
                            ![k].currentTokens = totalTokens[calls[k].conv]]
  /\ UNCHANGED <<convOwner, convMatches, totalTokens, messageSum, listing>>
  /\ UNCHANGED butConversations

\* updateConversation: getConversationById, existing
MessageExisting(k) ==
  /\ calls[k].pc = "existing"
  /\ calls' = [calls EXCEPT ![k].pc = "write"]
  /\ UNCHANGED <<convOwner, convMatches, totalTokens, messageSum, listing>>
  /\ UNCHANGED butConversations

\* updateConversation: the update with totalTokens: currentTokens + tokens
MessageWrite(k) ==
  /\ calls[k].pc = "write"
  /\ totalTokens' = [totalTokens EXCEPT ![calls[k].conv] =
                       calls[k].currentTokens + calls[k].tokens]
  /\ calls' = [calls EXCEPT ![k].pc = "done"]
  /\ UNCHANGED <<convOwner, convMatches, messageSum, listing>>
  /\ UNCHANGED butConversations

NextConversations ==
  \/ \E user \in Users, q \in BOOLEAN, page \in 1..MaxConversations,
        limit \in 1..MaxConversations : ListForUser(user, q, page, limit)
  \/ \E user \in Users \cup {Anonymous} : ListApp(user)
  \/ \E user \in Users \cup {Anonymous}, q \in BOOLEAN, page \in 1..MaxConversations,
        limit \in 1..MaxConversations : ListV1(user, q, page, limit)
  \/ \E k \in CallIds :
       \/ \E conv \in ConvIds, tokens \in TokenCounts : MessageInsert(k, conv, tokens)
       \/ MessageRead(k)
       \/ MessageExisting(k)
       \/ MessageWrite(k)


(***************************************************************************)
(* The audio player: playSong of the player store and the effect of        *)
(* useAudioPlayer that loads the audio of the current song.                *)
(***************************************************************************)
\* most songs in the playlist
MaxTracks == 2
\* most playSong calls
MaxSwitches == 2

Tracks == 1..MaxTracks

IdleAudio ==
  /\ currentSong = 0
  /\ songSource = [t \in Tracks |-> "none"]
  /\ audioSrc = 0
  /\ currentBlobUrl = 0
  /\ loads = {}
  /\ switches = 0
  /\ currentLoaded = FALSE

\* the hook is mounted: the store's first song is current and the effect
\* has started its load
InitAudio ==
  /\ currentSong = 1
  /\ songSource \in [Tracks -> {"local", "remote", "both", "none"}]
  /\ audioSrc = 0
  /\ currentBlobUrl = 0
  /\ loads = {[n |-> 0, song |-> 1]}
  /\ switches = 0
  /\ currentLoaded = FALSE

butAudio == <<studyVars, libraryVars, convVars, baseVars>>

\* playSong sets the current song; the effect on currentSong.id starts
\* loadAudio, which runs up to its await: cleanupBlobUrl, then getAudioUrl
PlaySong(song) ==
  /\ switches < MaxSwitches
  /\ song # currentSong
  /\ currentSong' = song
  /\ currentBlobUrl' = 0
  /\ loads' = loads \cup {[n |-> switches + 1, song |-> song]}
  /\ switches' = switches + 1
  /\ currentLoaded' = FALSE
  /\ UNCHANGED <<songSource, audioSrc>>
  /\ UNCHANGED butAudio

\* the url loadAudio finds: the local one, else the song's remote one
FoundUrl(load, found) ==
  IF found /\ songSource[load.song] \in {"local", "both"} THEN "local"
  ELSE IF songSource[load.song] \in {"remote", "both"} THEN "remote"
  ELSE "none"

\* loadAudio after its await: a local url becomes the src and the blob
\* ref; without one (none stored, or the lookup failed) the song's remote
\* url becomes the src, if it has one
Loaded(load, found) ==
  IF FoundUrl(load, found) = "none"
  THEN [src |-> audioSrc, blob |-> currentBlobUrl]
  ELSE [src |-> load.song,
        blob |-> IF FoundUrl(load, found) = "local" THEN load.song ELSE currentBlobUrl]

\* getAudioUrl of a load settles, in any order among the loads
LoadSettle(load, found) ==
  /\ load \in loads
  /\ loads' = loads \ {load}
  /\ audioSrc' = Loaded(load, found).src
  /\ currentBlobUrl' = Loaded(load, found).blob
  /\ currentLoaded' = (currentLoaded \/
                        (load.n = switches /\ FoundUrl(load, found) # "none"))
  /\ UNCHANGED <<currentSong, songSource, switches>>
  /\ UNCHANGED butAudio

NextAudio ==
  \/ \E song \in Tracks : PlaySong(song)
  \/ \E n \in 0..MaxSwitches, song \in Tracks, found \in BOOLEAN :
       LoadSettle([n |-> n, song |-> song], found)

\* the parts below at rest
IdleMore == IdleStudy /\ IdleLibrary /\ IdleConversations /\ IdleAudio

\* the extractor at rest, for behaviours of the requests alone
IdleJSON ==
  /\ text = << >>
  /\ embedded = [has |-> FALSE, prefix |-> << >>, value |-> JNull, suffix |-> << >>]
  /\ jpc = "idle"
  /\ startIndex = 0
  /\ scanIndex = 0
  /\ braceCount = 0
  /\ inString = FALSE
  /\ escapeNext = FALSE
  /\ result = null

\* no import request, for behaviours of the extractor alone
IdleImport ==
  /\ mockMode = FALSE
  /\ session = FALSE
  /\ lyrics = << >>
  /\ options = [parseWithAI |-> FALSE, generateCards |-> FALSE, cardsPerLine |-> 1]
  /\ pc = "idle"
  /\ response = 0
  /\ dbSongs = 0
  /\ dbLines = << >>
  /\ dbCards = << >>
  /\ parsedLines = << >>
  /\ batchStart = 0
  /\ results = << >>
  /\ cardIndex = 1
  /\ inflight = 0
  /\ invoked = << >>
  /\ batchLog = << >>
  /\ cardLog = << >>

vars == <<jsonVars, importVars, genVars, cardLog, progVars, moreVars>>

\* one request is served: a song import or a card generation
Init == IdleJSON /\ IdleProgress /\ IdleMore /\ ((InitImport /\ IdleGenerate) \/ InitGenerate)

Next == NextImport \/ NextGenerate

Spec == Init /\ [][Next]_vars

InitExtract == InitJSON /\ IdleImport /\ IdleGenerate /\ IdleProgress /\ IdleMore

SpecJSON == InitExtract /\ [][NextJSON]_vars

\* extractJSON is straight-line synchronous code: once called it runs on
SpecJSONLive == SpecJSON /\ WF_vars(NextJSON)

\* the requests for the progress of one (user, card) pair, alone
InitTracker == InitProgress /\ IdleJSON /\ IdleImport /\ IdleGenerate /\ IdleMore

SpecProgress == InitTracker /\ [][NextProgress]_vars

IdleBase == IdleJSON /\ IdleImport /\ IdleGenerate /\ IdleProgress

\* the cards page with its study sessions, alone
InitPage == InitStudy /\ IdleLibrary /\ IdleConversations /\ IdleAudio /\ IdleBase

SpecStudy == InitPage /\ [][NextStudy]_vars

\* the library requests, alone
InitTables == InitLibrary /\ IdleStudy /\ IdleConversations /\ IdleAudio /\ IdleBase

SpecLibrary == InitTables /\ [][NextLibrary]_vars

\* the conversations, alone
InitChats == InitConversations /\ IdleStudy /\ IdleLibrary /\ IdleAudio /\ IdleBase

SpecConversations == InitChats /\ [][NextConversations]_vars

\* the audio player, alone
InitPlayer == InitAudio /\ IdleStudy /\ IdleLibrary /\ IdleConversations /\ IdleBase

SpecAudio == InitPlayer /\ [][NextAudio]_vars

(***************************************************************************)
(* Properties of the JSON extractor.                                       *)
(***************************************************************************)
NoBraceBefore == indexOf(embedded.prefix, "{", 1) = 0
WholeTextIsOtherJSON == JSONparse(text).ok /\ JSONparse(text).val # embedded.value

\* C8 as stated: whatever prose surrounds an embedded well-formed object, the
\* extractor returns that object.
C8_AnyProse == (jpc = "done" /\ embedded.has) => result = embedded.value

\* C8, amended: when the prose before the embedded object holds no "{" and the
\* whole text is not itself a JSON document of another value, the extractor
\* returns the embedded object (nested objects and arrays included).
C8_EmbeddedObjectExtracted ==
  (jpc = "done" /\ embedded.has /\ NoBraceBefore /\ ~WholeTextIsOtherJSON)
    => result = embedded.value

HasNested(v) == \E k \in DOMAIN v.members : v.members[k].type \in {"object", "array"}

C8_Witness ==
  /\ jpc = "done"
  /\ embedded.has
  /\ embedded.prefix # << >>
  /\ embedded.suffix # << >>
  /\ NoBraceBefore
  /\ HasNested(embedded.value)
  /\ startIndex > 1
  /\ result = embedded.value

\* C9: while scanning, an escaped quote inside a string leaves the scanner in
\* the string, a brace inside a string leaves the depth unchanged, and when a
\* well-formed JSON value starts at the first "{" the scan closes exactly at
\* that value's last character.
C9_EscapedQuoteKeepsString ==
  (jpc = "scan" /\ scanIndex <= Len(text) /\ inString /\ escapeNext
     /\ text[scanIndex] = "\"") => (inString' /\ jpc' = "scan")

C9_BraceInStringKeepsDepth ==
  (jpc = "scan" /\ scanIndex <= Len(text) /\ inString
     /\ text[scanIndex] \in {"{", "}"}) => (braceCount' = braceCount /\ jpc' = "scan")

C9_ClosesAtMatchingBrace ==
  (jpc = "done" /\ startIndex > 0 /\ ParseValue(text, startIndex).ok)
    => scanIndex + 1 = ParseValue(text, startIndex).next

C9_ScanRespectsStrings ==
  /\ [][C9_EscapedQuoteKeepsString /\ C9_BraceInStringKeepsDepth]_vars
  /\ []C9_ClosesAtMatchingBrace

\* an escaped quote was scanned inside a string that also holds a brace, and
\* the scan closed later, at the end of the object
C9_Witness ==
  /\ jpc = "done"
  /\ startIndex > 0
  /\ embedded.has
  /\ \E k \in DOMAIN embedded.value.members :
       /\ embedded.value.members[k].type = "string"
       /\ indexOf(embedded.value.members[k].str, "\"", 1) # 0
       /\ indexOf(embedded.value.members[k].str, "}", 1) # 0
  /\ scanIndex < Len(text)
  /\ result = embedded.value

\* C10: the result is a JSON object or the failure signal, never another JSON
\* value, and a text without any "{" yields the failure signal.
C10_ObjectOrFailure ==
  jpc = "done" =>
    /\ result.type \in {"object", "null"}
    /\ (indexOf(text, "{", 1) = 0 => result = null)

\* the scan found a closing brace and the slice up to it is not JSON
SliceDoesNotParse ==
  /\ startIndex > 0
  /\ scanIndex <= Len(text)
  /\ ~JSONparse(SubSeq(text, startIndex, scanIndex)).ok

\* the scan ran off the end of the text without closing the object
NoBalancedObject == startIndex > 0 /\ scanIndex > Len(text)

C11_NeverThrows == jpc # "threw"

C11_FailureSignal ==
  (jpc = "done" /\ (SliceDoesNotParse \/ NoBalancedObject)) => result = null

\* C11: for every input text extractJSON ends, by returning and never by an
\* exception; when no balanced object is found or the balanced slice does not
\* parse, what it returns is the failure signal.
C11_TerminatesWithoutThrowing ==
  /\ []C11_NeverThrows
  /\ []C11_FailureSignal
  /\ <>(jpc = "done")

\* a balanced slice that is not JSON was met and null came back
C11_Witness ==
  /\ jpc = "done"
  /\ SliceDoesNotParse
  /\ result = null

(***************************************************************************)
(* Properties of the batch annotator and of the import.                    *)
(***************************************************************************)
\* parseLyrics has just returned outside mock mode: results is its result
AnnotatorReturned == pc = "update" /\ ~mockMode

Failed(answer) == answer.kind \in {"throw", "nojson", "badlines"}

\* ceil(n / batchSize)
Chunks(n) == (n + batchSize - 1) \div batchSize

\* C1: the annotator returns exactly one entry per input line, whichever
\* chunks fail and whatever the successful chunks' answers hold.
C1_OneEntryPerLine == AnnotatorReturned => Len(results) = Len(lyrics)

\* C2: the annotator's line numbers are 1..N in order, and the entry numbered
\* k is the one of input line k.
C2_LineNumbersMatchInput ==
  AnnotatorReturned =>
    /\ Len(results) = Len(lyrics)
    /\ \A k \in 1..Len(results) :
         /\ results[k].lineNumber = k
         /\ k <= Len(lyrics) => results[k].contentJa = lyrics[k]

\* what a finished chunk must have contributed to results
ExpectedOfChunk(e) ==
  LET size == Min(e.start + batchSize, Len(lyrics)) - e.start
  IN IF Failed(e.answer)
     THEN [j \in 1..size |->
             [lineNumber |-> e.start + j, contentJa |-> lyrics[e.start + j],
              contentZh |-> EmptyText, furigana |-> EmptyArrayText,
              tokens |-> EmptyArrayText]]
     ELSE [j \in 1..Len(e.answer.lines) |->
             [lineNumber |-> e.start + j, contentJa |-> e.answer.lines[j].contentJa,
              contentZh |-> e.answer.lines[j].contentZh,
              furigana |-> e.answer.lines[j].furigana,
              tokens |-> e.answer.lines[j].tokens]]

RECURSIVE ExpectedResults(_)
ExpectedResults(log) ==
  IF log = << >> THEN << >>
  ELSE ExpectedResults(SubSeq(log, 1, Len(log) - 1)) \o ExpectedOfChunk(log[Len(log)])

\* C3: a failed chunk does not stop the job: every chunk is processed, in
\* order, each chunk that did not fail contributes exactly its own annotated
\* entries, and only a failed chunk contributes placeholders.
C3_FailureStaysInItsChunk ==
  /\ (pc \in {"parse", "update"} /\ ~mockMode) => results = ExpectedResults(batchLog)
  /\ AnnotatorReturned =>
       /\ Len(batchLog) = Chunks(Len(lyrics))
       /\ \A k \in 1..Len(batchLog) : batchLog[k].start = (k - 1) * batchSize

\* the first of two chunks failed and the second was annotated
C3_Witness ==
  /\ AnnotatorReturned
  /\ Len(batchLog) = 2
  /\ Failed(batchLog[1].answer)
  /\ batchLog[2].answer.kind = "lines"
  /\ batchLog[2].answer.lines = FaithfulLines(BatchOf(lyrics, batchSize))
  /\ results[Len(results)].contentZh # EmptyText

AllChunksFailed == \A k \in 1..Len(batchLog) : Failed(batchLog[k].answer)

\* C4: when every chunk fails, each line's record keeps the line's text and
\* has an empty translation, an empty furigana list and an empty token list.
C4_AllFailedKeepsText ==
  (AnnotatorReturned /\ AllChunksFailed) =>
    /\ Len(results) = Len(lyrics)
    /\ \A k \in 1..Len(lyrics) :
         /\ results[k].contentJa = lyrics[k]
         /\ results[k].contentZh = EmptyText
         /\ results[k].furigana = EmptyArrayText
         /\ results[k].tokens = EmptyArrayText

\* two chunks, a full one and a shorter one, both failed
C4_Witness ==
  /\ AnnotatorReturned
  /\ AllChunksFailed
  /\ Len(batchLog) = 2
  /\ Len(lyrics) > batchSize

SomeChunkFailed == \E k \in 1..Len(batchLog) : Failed(batchLog[k].answer)

\* C5: an authenticated, valid import with parseWithAI whose annotation
\* failed for some or all chunks ends with a success response, the song
\* stored and all N lines stored with their text and the numbers 1..N.
C5_ImportSurvivesAnnotationFailure ==
  (pc = "done" /\ session /\ ValidBody /\ options.parseWithAI /\ SomeChunkFailed) =>
    /\ response = 200
    /\ dbSongs = 1
    /\ Len(dbLines) = Len(lyrics)
    /\ \A k \in 1..Len(lyrics) :
         /\ dbLines[k].lineNumber = k
         /\ dbLines[k].contentJa = lyrics[k]

\* an import of two chunks ended: one chunk failed, the other was annotated
C5_Witness ==
  /\ pc = "done"
  /\ options.parseWithAI
  /\ Len(batchLog) = 2
  /\ \E k \in 1..2 : Failed(batchLog[k].answer)
  /\ \E k \in 1..2 : batchLog[k].answer.kind = "lines"
  /\ response = 200

\* C6: at most one LLM invocation is in flight at any moment of a request.
C6_OneInvocationAtATime == inflight <= 1

\* a second card generation call is in flight after the annotation call and
\* the first card generation call have finished
C6_Witness ==
  /\ inflight = 1
  /\ Len(invoked) = 3
  /\ invoked[1].task = "parse"
  /\ invoked[2] = [task |-> "cards", at |-> 1]
  /\ invoked[3] = [task |-> "cards", at |-> 2]

ParseCalls == SelectSeq(invoked, LAMBDA e : e.task = "parse")

\* C7: outside mock mode the annotator never makes more than ceil(N/8)
\* invocations, and when it returns it has made exactly ceil(N/8): the k-th
\* one for the chunk starting at line 8(k-1)+1, of at most 8 lines, none
\* for a chunk a second time.
C7_OneCallPerChunk ==
  /\ ~mockMode => Len(ParseCalls) <= Chunks(Len(lyrics))
  /\ AnnotatorReturned =>
       /\ Len(ParseCalls) = Chunks(Len(lyrics))
       /\ \A k \in 1..Len(ParseCalls) :
            /\ ParseCalls[k].at = (k - 1) * batchSize
            /\ Len(BatchOf(lyrics, ParseCalls[k].at)) \in 1..batchSize

\* a job of two chunks returned after its first chunk failed
C7_Witness ==
  /\ AnnotatorReturned
  /\ Len(lyrics) > batchSize
  /\ Failed(batchLog[1].answer)
  /\ Len(ParseCalls) = 2

(***************************************************************************)
(* Properties of card generation.                                          *)
(***************************************************************************)
GenerateServed == gpc = "done" /\ gbody.valid /\ glineFound

Words(rows) == [j \in 1..Len(rows) |-> rows[j].word]

\* C12: when the generation request is served and the generator returned m
\* candidates for a requested count c, the card table holds exactly the first
\* min(m, c) candidates, in the order they were returned.
C12_FirstCandidatesInOrder ==
  GenerateServed =>
    Words(dbCards) = Words(SubSeq(gcandidates, 1, Min(Len(gcandidates), gbody.count)))

\* C13: a card generation call whose JSON extraction failed ends with an
\* error for its caller, never with an empty list or placeholder cards, and
\* no card is saved for that call; the generation endpoint answers with an
\* error and no data.
C13_UnparsedAnswerIsAnError ==
  \A k \in 1..Len(cardLog) :
    cardLog[k].kind = "nojson" =>
      /\ cardLog[k].failed
      /\ cardLog[k].cards = << >>
      /\ \A j \in 1..Len(dbCards) : dbCards[j].lineNumber # cardLog[k].at
      /\ gpc = "done" => (gresponse = 500 /\ gdata = << >>)

\* the generation endpoint answered a call whose text held no JSON
C13_Witness ==
  /\ gpc = "done"
  /\ Len(cardLog) = 1
  /\ cardLog[1].kind = "nojson"
  /\ gresponse = 500
  /\ dbCards = << >>

SomeCardCallFailed == \E k \in 1..Len(cardLog) : cardLog[k].failed

\* C14: a request during which a card generation call failed answers with an
\* error, never with a success.
C14_CardFailureIsReported ==
  SomeCardCallFailed =>
    /\ pc = "done" => response >= 400
    /\ gpc = "done" => gresponse >= 400

\* C15: when the one call of a generation request fails because the LLM
\* endpoint refuses the credentials, the response has status 503.
C15_CredentialErrorIs503 ==
  (gpc = "done" /\ Len(cardLog) = 1 /\ cardLog[1].kind = "badkey") => gresponse = 503

\* the tag the generator gave the candidate a card row was made from
TagsOf(row) ==
  {cardLog[k].cards[j].partOfSpeech :
     <<k, j>> \in {kj \in (1..Len(cardLog)) \X (1..MaxGenCandidates + 1) :
                     /\ kj[2] <= Len(cardLog[kj[1]].cards)
                     /\ cardLog[kj[1]].at = row.lineNumber
                     /\ cardLog[kj[1]].cards[kj[2]].word = row.word}}

\* C16: every saved card, whichever request saved it, has the normalization of
\* its candidate's tag as part of speech: one of the six values, the tag
\* itself when it is one of the six, "particle" for "preposition", "other"
\* for "pronoun", for an unknown tag and for a missing one.
C16_SavedPartOfSpeechIsNormalized ==
  \A i \in 1..Len(dbCards) :
    /\ dbCards[i].partOfSpeech \in validPartOfSpeech
    /\ TagsOf(dbCards[i]) # {}
    /\ \A t \in TagsOf(dbCards[i]) :
         /\ dbCards[i].partOfSpeech = normalizePartOfSpeech(t)
         /\ t \in validPartOfSpeech => dbCards[i].partOfSpeech = t
         /\ t = "preposition" => dbCards[i].partOfSpeech = "particle"
         /\ t \in {"pronoun", "xyz", ""} => dbCards[i].partOfSpeech = "other"

\* the import saved a card whose candidate was tagged "preposition"
C16_Witness ==
  /\ pc = "done"
  /\ \E i \in 1..Len(dbCards) :
       /\ "preposition" \in TagsOf(dbCards[i])
       /\ dbCards[i].partOfSpeech = "particle"


(***************************************************************************)
(* Properties of the learning state tracker                                *)
(***************************************************************************)
NoneInProgress == \A r \in Requests : ~InProgress(r)

\* the review count of the pair, 0 while it has no row
ReviewCount(table) == IF table = << >> THEN 0 ELSE table[1].reviewCount

\* C17: for a pair that starts with no progress, after k >= 1 marks applied
\* one after another the row holds the target of the last mark as its status
\* and k as its review count, and every one of the marks was answered 200.
C17_SequentialMarks ==
  (~overlapped /\ initialRows = << >> /\ Len(served) >= 1 /\ NoneInProgress) =>
    /\ \A i \in 1..Len(served) : served[i].response = 200
    /\ cardProgress = <<[status |-> served[Len(served)].target,
                         reviewCount |-> Len(served)]>>

C17_Witness ==
  /\ ~overlapped
  /\ initialRows = << >>
  /\ NoneInProgress
  /\ Len(served) >= 2
  /\ served[1].target # served[Len(served)].target
  /\ cardProgress # << >>
  /\ cardProgress[1].reviewCount = Len(served)

\* C18: the table never holds more than one row for the (user, card) pair,
\* also when several requests that found no row create it concurrently.
C18_OneRowPerPair == Len(cardProgress) <= 1

C18_Witness ==
  /\ initialRows = << >>
  /\ Len(cardProgress) = 1
  /\ \E r \in Requests, q \in Requests :
       /\ r # q
       /\ req[r].pc = "done" /\ req[r].response = 500
       /\ req[q].pc \in {"update", "done"} /\ req[q].response # 500

\* C19: every valid mark request succeeds and adds exactly one to the review
\* count: the count is the initial count plus the number of marks finished,
\* also for marks made concurrently and for a pair that had no row.
C19_EveryMarkCounts ==
  /\ \A i \in 1..Len(served) : served[i].response = 200
  /\ ReviewCount(cardProgress) = ReviewCount(initialRows) + Len(served)

\* C20: an existing record changes only in the update step of a mark, and
\* the status that step writes is learning or mastered, never new.
C20_OnlyMarksToLearningOrMastered ==
  [][(cardProgress # << >> /\ cardProgress' # cardProgress) =>
       /\ \E r \in Requests :
            IsMark(r) /\ req[r].pc = "update" /\ req'[r].pc = "done"
       /\ cardProgress'[1].status \in {"learning", "mastered"}]_vars


(***************************************************************************)
(* Properties of the study session                                         *)
(***************************************************************************)
\* C21: when a session completes by the mark of its last card, the summary
\* handed to onComplete counts as mastered and as learning the cards whose
\* latest mark of the session was mastered and learning, that last mark
\* included.
C21_SummaryCountsLastMark ==
  showComplete =>
    /\ reported.mastered = Cardinality(masteredIds)
    /\ reported.learning = Cardinality(learningIds)

InSession(id) == \E i \in 1..Len(cards) : cards[i].id = id

\* C22: in the session's cards no mastered card comes before a new or
\* learning card; the session has every card when the cap is 0 and
\* min(cap, total) of them otherwise, each card of the page at most once,
\* and a mastered card only when every new and learning card is there.
C22_PrioritizedAndCapped ==
  /\ \A i \in 1..Len(cards), j \in 1..Len(cards) :
       (i < j /\ cards[i].status = "mastered") => cards[j].status = "mastered"
  /\ Len(cards) = IF studyLimit = 0 \/ studyLimit > Len(allCards)
                  THEN Len(allCards) ELSE studyLimit
  /\ \A i \in 1..Len(cards) : \E k \in 1..Len(allCards) : allCards[k] = cards[i]
  /\ \A i \in 1..Len(cards), j \in 1..Len(cards) : cards[i].id = cards[j].id => i = j
  /\ (\E i \in 1..Len(cards) : cards[i].status = "mastered") =>
       \A k \in 1..Len(allCards) :
         allCards[k].status # "mastered" => InSession(allCards[k].id)

C22_Witness ==
  /\ studyMode
  /\ marksMade > 0 /\ pending = {}
  /\ studyLimit > 0 /\ studyLimit < Len(allCards)
  /\ \E i \in 1..Len(allCards), j \in 1..Len(allCards) :
       /\ i < j
       /\ allCards[i].status = "mastered" /\ allCards[j].status # "mastered"
       /\ ~InSession(allCards[i].id) /\ InSession(allCards[j].id)

\* C29: when an update sent from a study session settles without the
\* server having persisted it, the page's cards (status and review count)
\* and its counts by status stay as they were.
C29_LocalStateFollowsPersistence ==
  [][(pending' # pending /\ pending' \subseteq pending /\ serverCards' = serverCards) =>
       (allCards' = allCards /\ stats' = stats)]_vars


(***************************************************************************)
(* Properties of the library                                               *)
(***************************************************************************)
\* C23: after a song is deleted no line that belonged to it remains, and no
\* card of any of those lines remains.
C23_DeleteCascades ==
  \A id \in deletedSongs :
    /\ id \notin songsTable
    /\ \A l \in linesTable : LineSong(l) # id
    /\ \A c \in cardsTable : CardSong(c) # id

C23_Witness ==
  /\ deletedSongs # {}
  /\ songsTable # {} /\ linesTable # {} /\ cardsTable # {}
  /\ \E c \in LibraryCardIds : CardSong(c) \in deletedSongs

\* C30: a step that modifies or deletes a card serves a request of the
\* signed-in user who created the song of that card.
C30_OnlyTheCreatorChangesCards ==
  [][\A c \in cardsTable :
       (c \notin cardsTable' \/ cardWord'[c] # cardWord[c]) =>
         /\ requester' # Anonymous
         /\ requester' = songCreator[CardSong(c)]]_vars


(***************************************************************************)
(* Properties of the conversations                                         *)
(***************************************************************************)
\* C25: a listing of conversations holds only conversations owned by the
\* user it was made for.
C25_ListingOnlyOwnConversations ==
  \A i \in 1..Len(listing.data) : convOwner[listing.data[i]] = listing.user

\* C27: once every createMessage call has finished, the totalTokens of each
\* conversation is the sum of the token counts of its messages.
C27_TotalIsSumOfMessages ==
  (\A k \in CallIds : calls[k].pc \in {"idle", "done"}) =>
    \A c \in ConvIds : totalTokens[c] = messageSum[c]


(***************************************************************************)
(* Properties of the audio player                                          *)
(***************************************************************************)
\* C28: once no load is pending and the load started for the current song
\* has set the src, the src of the audio element is a url of the current
\* song: the load of a song that was current earlier does not have the
\* last word.
C28_SourceIsCurrentSong ==
  (loads = {} /\ currentLoaded) => audioSrc = currentSong


(***************************************************************************)
(* Properties of the annotations stored on the lines.                      *)
(***************************************************************************)
StartKey == <<"s", "t", "a", "r", "t">>
EndKey == <<"e", "n", "d">>

\* the span o lies inside the text t
SpanWithin(o, t) ==
  /\ o.type = "object"
  /\ {StartKey, EndKey} \subseteq DOMAIN o.members
  /\ o.members[StartKey].type = "number"
  /\ o.members[EndKey].type = "number"
  /\ 0 <= o.members[StartKey].num
  /\ o.members[StartKey].num < o.members[EndKey].num
  /\ o.members[EndKey].num <= Len(t)

\* the spans a stored furigana value holds: the items of an array, and for a
\* value stored as a JSON string the items of the array it spells
StoredSpans(v) ==
  IF v.type = "array" THEN v.items
  ELSE IF v.type = "string" /\ JSONparse(v.str).ok /\ JSONparse(v.str).val.type = "array"
  THEN JSONparse(v.str).val.items
  ELSE << >>

\* C24: every furigana span stored on a line satisfies
\* 0 <= start < end <= length(contentJa) of that line, whichever path wrote it.
C24_SpansWithinLine ==
  \A k \in 1..Len(dbLines) :
    \A i \in 1..Len(StoredSpans(dbLines[k].furigana)) :
      SpanWithin(StoredSpans(dbLines[k].furigana)[i], dbLines[k].contentJa)

\* C26: after an import with parseWithAI, the translation and the furigana
\* stored on line k are the ones produced for input line k, or stay empty; no
\* annotation is stored on another line than the one it was produced for.
C26_AnnotationOnItsOwnLine ==
  (pc = "done" /\ response = 200 /\ options.parseWithAI /\ ~mockMode) =>
    \A k \in 1..Len(dbLines) :
      /\ dbLines[k].contentZh \in {NullText, EmptyText, Translation(lyrics[k])}
      /\ dbLines[k].furigana \in {JNull, JSONparse(FuriganaText(lyrics[k])).val,
                                   JSONparse(OverlongFurigana(lyrics[k])).val}

====
